---- MODULE Spec2Model ----
(***************************************************************************)
(* A model of the TIC container of Aureliona1/PNG (src/binary/tic.ts) and  *)
(* of the colour-format conversions it uses (src/format.ts).               *)
(*                                                                         *)
(* A container is the triple (dictLength, dict, dataChunk).  dict models   *)
(* the JavaScript Map<string, TicDictEntry> as the sequence of its entries *)
(* in insertion order; the field "key" of an entry is the Map key under    *)
(* which the entry object is stored, "name" is the entry's own name field. *)
(* A string is the sequence of its code points, a Uint8Array the sequence  *)
(* of its bytes.                                                           *)
(*                                                                         *)
(* The PNG codec (src/binary/encode.ts, src/binary/decode.ts) and the bit  *)
(* packer (src/format.ts) are functions without state; call records the    *)
(* last call of one of them, with its arguments and its result.            *)
(***************************************************************************)
EXTENDS Integers, Sequences, FiniteSets, TLC

VARIABLES dictLength, dict, dataChunk, last, call

vars == <<dictLength, dict, dataChunk, last, call>>

(***************************************************************************)
(* Bounds of the model.                                                    *)
(***************************************************************************)
\* largest image width and height drawn as an input
MaxW == 2
MaxH == 1
\* writeEntry is not taken once the dictionary holds this many entries
MaxEntries == 2
\* writeEntry is not taken when dataChunk would grow past this length
MaxData == 6

(***************************************************************************)
(* Program constants.                                                      *)
(***************************************************************************)
DICT_ENTRY_BASE_LENGTH == 14
DICT_NAME_MAX_LENGTH == 256

TicColorFormatNames == {"GrayScale", "GrayScaleAlpha", "RGB", "RGBA"}

\* ticColorFormats.get: the numeric id of a format, which is its channel count
ticColorFormats(f) ==
    CASE f = "GrayScale" -> 1
      [] f = "GrayScaleAlpha" -> 2
      [] f = "RGB" -> 3
      [] f = "RGBA" -> 4

\* ticColorFormats.revGet
ticColorFormatsRev(n) == CHOOSE f \in TicColorFormatNames : ticColorFormats(f) = n

BitDepths == {1, 2, 4, 8}

(***************************************************************************)
(* Arithmetic and typed-array helpers.                                     *)
(***************************************************************************)
Min(a, b) == IF a < b THEN a ELSE b
Max(a, b) == IF a > b THEN a ELSE b

\* Math.ceil(a / b) for a >= 0, b > 0
CeilDiv(a, b) == (a + b - 1) \div b

\* Math.log2 of a bit depth
Log2(d) == CASE d = 1 -> 0 [] d = 2 -> 1 [] d = 4 -> 2 [] d = 8 -> 3

Pow2(n) == CASE n = 0 -> 1 [] n = 1 -> 2 [] n = 2 -> 4 [] n = 3 -> 8

\* concatenation of a sequence of sequences
RECURSIVE Flatten(_)
Flatten(ss) == IF ss = <<>> THEN <<>> ELSE Head(ss) \o Flatten(Tail(ss))

\* TypedArray.prototype.subarray(begin, end) with 0-based indices: a negative
\* index counts from the end, both are clamped to [0, length]
RelIndex(len, i) == IF i < 0 THEN Max(len + i, 0) ELSE Min(i, len)

Subarray(s, begin, end) ==
    LET b == RelIndex(Len(s), begin)
        e == RelIndex(Len(s), end)
    IN  IF e <= b THEN <<>> ELSE SubSeq(s, b + 1, e)

\* concatTypedArrays
concatTypedArrays(a, b) == a \o b

\* DataView.setUint32, big-endian: the value is stored modulo 2^32, so a
\* negative n is stored as the bitwise complement of -n - 1
NatBytes(v) == << v \div 16777216, (v \div 65536) % 256, (v \div 256) % 256, v % 256 >>

U32Bytes(n) ==
    IF n >= 0 THEN NatBytes(n)
    ELSE [i \in 1..4 |-> 255 - NatBytes(-n - 1)[i]]

\* DataView.getUint32 at the 0-based offset c of raw (the caller checks the
\* bounds).  Wide(raw, c) tells that the value is 2^16 or more; the model
\* reads no such field.
Wide(raw, c) == raw[c + 1] /= 0 \/ raw[c + 2] /= 0

U32At(raw, c) == raw[c + 3] * 256 + raw[c + 4]

(***************************************************************************)
(* TextEncoder / TextDecoder (UTF-8) on the Basic Multilingual Plane.      *)
(***************************************************************************)
EncodeCodePoint(c) ==
    IF c < 128 THEN << c >>
    ELSE IF c < 2048 THEN << 192 + (c \div 64), 128 + (c % 64) >>
    ELSE << 224 + (c \div 4096), 128 + ((c \div 64) % 64), 128 + (c % 64) >>

\* new TextEncoder().encode(str): a string of ASCII is its own encoding; any
\* other string is encoded half by half
RECURSIVE TextEncode(_)
TextEncode(str) ==
    IF \A i \in 1..Len(str) : str[i] < 128 THEN str
    ELSE IF Len(str) = 1 THEN EncodeCodePoint(str[1])
    ELSE LET h == Len(str) \div 2
         IN  TextEncode(SubSeq(str, 1, h)) \o TextEncode(SubSeq(str, h + 1, Len(str)))

IsCont(b) == b >= 128 /\ b < 192

\* bytes[i] and bytes[i + 1] start a three-byte sequence
Lead3(bytes, i) ==
    /\ bytes[i] >= 224 /\ bytes[i] < 240
    /\ i + 1 <= Len(bytes) /\ IsCont(bytes[i + 1])
    /\ (bytes[i] = 224 => bytes[i + 1] >= 160)
    /\ (bytes[i] = 237 => bytes[i + 1] < 160)

\* a well-formed sequence of two or of three bytes starts at i
Start2(bytes, i) ==
    bytes[i] >= 194 /\ bytes[i] < 224 /\ i + 1 <= Len(bytes) /\ IsCont(bytes[i + 1])

Start3(bytes, i) == Lead3(bytes, i) /\ i + 2 <= Len(bytes) /\ IsCont(bytes[i + 2])

\* byte i belongs to the sequence that an earlier byte starts
Consumed(bytes, i) ==
    \/ i > 1 /\ (Start2(bytes, i - 1) \/ Lead3(bytes, i - 1))
    \/ i > 2 /\ Start3(bytes, i - 2)

\* new TextDecoder().decode(bytes): one code point for every well-formed
\* sequence of one, two or three bytes, and U+FFFD (65533) for every other
\* byte or cut-off sequence
TextDecode(bytes) ==
    IF \A i \in 1..Len(bytes) : bytes[i] < 128 THEN bytes ELSE
    LET starts == SelectSeq([i \in 1..Len(bytes) |-> i],
                            LAMBDA i : ~Consumed(bytes, i))
        CodePoint(i) ==
            IF bytes[i] < 128 THEN bytes[i]
            ELSE IF Start2(bytes, i)
                 THEN (bytes[i] - 192) * 64 + (bytes[i + 1] - 128)
            ELSE IF Start3(bytes, i)
                 THEN (bytes[i] - 224) * 4096 + (bytes[i + 1] - 128) * 64
                      + (bytes[i + 2] - 128)
            ELSE 65533
    IN  [k \in 1..Len(starts) |-> CodePoint(starts[k])]

(***************************************************************************)
(* PNGFormatterTo / PNGFormatterFrom (src/format.ts).  An image is a       *)
(* record [width, height, raw]; raw is RGBA, four bytes per pixel.         *)
(***************************************************************************)
\* raw[i] with a 0-based index; -1 stands for undefined
At(raw, i) == IF i >= 0 /\ i < Len(raw) THEN raw[i + 1] ELSE -1

\* the indices a loop "for (i = start; i < length; i += 4)" visits
Every4th(raw, start) == { i \in start..(Len(raw) - 1) : (i - start) % 4 = 0 }

canBeGrayScale(im) ==
    \A i \in Every4th(im.raw, 0) :
        /\ At(im.raw, i) = At(im.raw, i + 1)
        /\ At(im.raw, i) = At(im.raw, i + 2)
        /\ At(im.raw, i + 3) = 255

toGrayScale(im) == [i \in 1..(Len(im.raw) \div 4) |-> im.raw[(i - 1) * 4 + 1]]

canBeRGB(im) == \A i \in Every4th(im.raw, 3) : At(im.raw, i) = 255

toRGB(im) ==
    [k \in 1..((Len(im.raw) * 3) \div 4) |->
        im.raw[((k - 1) \div 3) * 4 + ((k - 1) % 3) + 1]]

canBeGrayScaleAlpha(im) ==
    \A i \in Every4th(im.raw, 0) :
        /\ At(im.raw, i) = At(im.raw, i + 1)
        /\ At(im.raw, i) = At(im.raw, i + 2)

\* newRaw[i] = raw[i * 2], newRaw[i + 1] = raw[i * 2 + 3] for even i
toGrayScaleAlpha(im) ==
    [k \in 1..(Len(im.raw) \div 2) |->
        IF (k - 1) % 2 = 0 THEN im.raw[(k - 1) * 2 + 1]
                           ELSE im.raw[(k - 2) * 2 + 3 + 1]]

canBeRGBA(im) == im.width * im.height * 4 = Len(im.raw)

\* PNGFormatterTo.c2n of raw.subarray(i, i + 3): a missing byte under << is
\* 0, a missing third byte makes the sum NaN, here -1
c2n(raw, i) ==
    IF i + 2 < Len(raw)
    THEN raw[i + 1] * 65536 + raw[i + 2] * 256 + raw[i + 3]
    ELSE -1

canBeIndexed_Below256(im) ==
    /\ canBeRGB(im)
    /\ Cardinality({ c2n(im.raw, i) : i \in Every4th(im.raw, 0) }) < 256

\* canBeIndexed: the keys of _indexedPalette after the loop are the distinct
\* colours of the image
canBeIndexed(im) ==
    /\ canBeRGB(im)
    /\ Cardinality({ c2n(im.raw, i) : i \in Every4th(im.raw, 0) }) <= 256

\* PNGFormatterFrom: src is a DecodeResult, of which only raw is read
fromGrayScale(raw) ==
    [k \in 1..(Len(raw) * 4) |->
        IF k % 4 /= 0 THEN raw[((k - 1) \div 4) + 1] ELSE 255]

\* the running index oldI has advanced once for every earlier non-alpha byte
fromRGB(raw) ==
    [k \in 1..((Len(raw) * 4) \div 3) |->
        IF k % 4 /= 0 THEN raw[(k - 1) - ((k - 1) \div 4) + 1] ELSE 255]

\* a fromGrayScaleAlpha that reads raw[floor(i / 2)] for every byte
fromGrayScaleAlpha_NoShift(raw) ==
    [k \in 1..(Len(raw) * 2) |-> raw[((k - 1) \div 2) + 1]]

fromGrayScaleAlpha(raw) ==
    [k \in 1..(Len(raw) * 2) |->
        IF (k - 1) % 4 = 2 THEN raw[((k - 1) \div 2) - 1 + 1]
                           ELSE raw[((k - 1) \div 2) + 1]]

\* packBits(bytes, width, desiredBitDepth) as writeEntry calls it: at depth
\* 8, the depth the container is written with here, the bytes are returned
\* as they are
packBits(bytes, width, desiredBitDepth) == bytes

(***************************************************************************)
(* The TIC container (src/binary/tic.ts).                                  *)
(***************************************************************************)
\* new TIC(dictLength, dict, dataChunk)
TIC(dl, d, dc) == [dictLength |-> dl, dict |-> d, dataChunk |-> dc]

\* new TIC(): the empty container
EmptyTIC == TIC(0, <<>>, <<>>)

\* Map.prototype.has / get / delete / set on the entries in insertion order
Has(d, key) == \E i \in 1..Len(d) : d[i].key = key

Get(d, key) == d[CHOOSE i \in 1..Len(d) : d[i].key = key]

MapDelete(d, key) == SelectSeq(d, LAMBDA e : e.key /= key)

MapSet(d, key, entry) ==
    LET e == [entry EXCEPT !.key = key]
    IN  IF Has(d, key)
        THEN [i \in 1..Len(d) |-> IF d[i].key = key THEN e ELSE d[i]]
        ELSE Append(d, e)

\* TIC.entryDataLength
entryDataLength(entry) ==
    CeilDiv(entry.width * entry.height * ticColorFormats(entry.colorFormat)
            * entry.bitDepth, 8)

\* a removeEntry that leaves the later entries' offsets as they are
RemovePresent_NoShift(t, entryName) ==
    LET entry == Get(t.dict, entryName)
        nameLength == Len(TextEncode(entry.name))
        dataLength == entryDataLength(entry)
    IN  TIC(t.dictLength - (DICT_ENTRY_BASE_LENGTH + nameLength),
            MapDelete(t.dict, entryName),
            concatTypedArrays(
                Subarray(t.dataChunk, 0, entry.byteOffset),
                Subarray(t.dataChunk, entry.byteOffset + dataLength,
                         Len(t.dataChunk))))

\* a removeEntry that also shifts the entries that start where the removed
\* entry starts
RemovePresent_ShiftFromOffset(t, entryName) ==
    LET entry == Get(t.dict, entryName)
        nameLength == Len(TextEncode(entry.name))
        dataLength == entryDataLength(entry)
        shifted == [i \in 1..Len(t.dict) |->
                       IF t.dict[i].byteOffset >= entry.byteOffset
                       THEN [t.dict[i] EXCEPT !.byteOffset = @ - dataLength]
                       ELSE t.dict[i]]
    IN  TIC(t.dictLength - (DICT_ENTRY_BASE_LENGTH + nameLength),
            MapDelete(shifted, entryName),
            concatTypedArrays(
                Subarray(t.dataChunk, 0, entry.byteOffset),
                Subarray(t.dataChunk, entry.byteOffset + dataLength,
                         Len(t.dataChunk))))

\* the branch of removeEntry for a name the dictionary holds
RemovePresent(t, entryName) ==
    LET entry == Get(t.dict, entryName)
        nameLength == Len(TextEncode(entry.name))
        dataLength == entryDataLength(entry)
        shifted == [i \in 1..Len(t.dict) |->
                       IF t.dict[i].byteOffset > entry.byteOffset
                       THEN [t.dict[i] EXCEPT !.byteOffset = @ - dataLength]
                       ELSE t.dict[i]]
    IN  TIC(t.dictLength - (DICT_ENTRY_BASE_LENGTH + nameLength),
            MapDelete(shifted, entryName),
            concatTypedArrays(
                Subarray(t.dataChunk, 0, entry.byteOffset),
                Subarray(t.dataChunk, entry.byteOffset + dataLength,
                         Len(t.dataChunk))))

\* a removeEntry that does not test dict.has(entryName)
RemoveEntryOf_NoHasTest(t, entryName) ==
    IF Has(t.dict, entryName) THEN RemovePresent(t, entryName)
    ELSE TIC(t.dictLength - (DICT_ENTRY_BASE_LENGTH + Len(TextEncode(entryName))),
             t.dict, t.dataChunk)

\* removeEntry(entryName) on the container t
RemoveEntryOf(t, entryName) ==
    IF Has(t.dict, entryName) THEN RemovePresent(t, entryName) ELSE t

\* the place of a format in the fallback chain of writeEntry
ticChainRank(f) ==
    CASE f = "GrayScale" -> 1
      [] f = "GrayScaleAlpha" -> 2
      [] f = "RGB" -> 3
      [] f = "RGBA" -> 4

\* a writeEntry whose chain lacks the GrayScaleAlpha step
WriteFormat_NoGrayScaleAlpha(im) ==
    IF canBeGrayScale(im) THEN "GrayScale"
    ELSE IF canBeRGB(im) THEN "RGB"
    ELSE "RGBA"

\* the colour format writeEntry selects for an image
WriteFormat(im) ==
    IF canBeGrayScale(im) THEN "GrayScale"
    ELSE IF canBeGrayScaleAlpha(im) THEN "GrayScaleAlpha"
    ELSE IF canBeRGB(im) THEN "RGB"
    ELSE "RGBA"

\* the bytes writeEntry converts the image to, before bit packing
WriteRaw(im) ==
    IF canBeGrayScale(im) THEN toGrayScale(im)
    ELSE IF canBeGrayScaleAlpha(im) THEN toGrayScaleAlpha(im)
    ELSE IF canBeRGB(im) THEN toRGB(im)
    ELSE im.raw

\* writeEntry(entryName, im, bitDepth) on the container t, where encodedRaw
\* is what packBits returned
WriteEntryWith(t, entryName, im, bitDepth, encodedRaw) ==
    LET d0 == IF Has(t.dict, entryName) THEN MapDelete(t.dict, entryName) ELSE t.dict
        Added(thisEntry) ==
            TIC(t.dictLength + DICT_ENTRY_BASE_LENGTH + thisEntry.nameLength,
                MapSet(d0, entryName, thisEntry),
                concatTypedArrays(t.dataChunk, encodedRaw))
    IN  Added([key |-> entryName,
               byteOffset |-> Len(t.dataChunk),
               width |-> im.width,
               height |-> im.height,
               colorFormat |-> WriteFormat(im),
               bitDepth |-> bitDepth,
               nameLength |-> Len(TextEncode(entryName)),
               name |-> entryName])

\* writeEntry(entryName, im, bitDepth) on the container t
WriteEntryOf(t, entryName, im, bitDepth) ==
    WriteEntryWith(t, entryName, im, bitDepth, packBits(WriteRaw(im), im.width, bitDepth))

\* the DecodeResult readEntry returns for an absent name
EmptyDecodeResult ==
    [raw |-> <<>>, width |-> 0, height |-> 0, colorFormat |-> "RGBA", bitDepth |-> 8]

\* readEntry(entryName) on the container t
ReadEntryOf(t, entryName) ==
    IF ~Has(t.dict, entryName) THEN EmptyDecodeResult
    ELSE LET entry == Get(t.dict, entryName)
         IN  [raw |-> Subarray(t.dataChunk, entry.byteOffset,
                               entry.byteOffset + entryDataLength(entry)),
              width |-> entry.width,
              height |-> entry.height,
              colorFormat |-> entry.colorFormat,
              bitDepth |-> entry.bitDepth]

\* the sum of 14 + nameLength over the entries of a dictionary
RECURSIVE DictSum(_)
DictSum(d) ==
    IF d = <<>> THEN 0
    ELSE DICT_ENTRY_BASE_LENGTH + Head(d).nameLength + DictSum(Tail(d))

\* the loop of validate over one entry: the name length is recomputed, a name
\* longer than the maximum is cut (the Map key is left as it is), and the
\* entry is flagged when its offset or its span leaves dataChunk
ValidateEntry(entry, dataLen) ==
    LET Renamed(encodedName) ==
            IF Len(encodedName) > DICT_NAME_MAX_LENGTH
            THEN [entry EXCEPT
                    !.name = TextDecode(SubSeq(encodedName, 1, DICT_NAME_MAX_LENGTH)),
                    !.nameLength = DICT_NAME_MAX_LENGTH]
            ELSE [entry EXCEPT !.nameLength = Len(encodedName)]
        Checked(e) ==
            [entry |-> e,
             valid |-> /\ ~(e.byteOffset >= dataLen)
                       /\ ~(e.byteOffset + entryDataLength(e) > dataLen)]
    IN  Checked(Renamed(TextEncode(entry.name)))

\* one run of dict.forEach in validate: the updated entries, the names pushed
\* to invalidEntries, and the local dictLength the run adds up (validate never
\* assigns it to this.dictLength)
ValidatePass(t) ==
    LET NamesOf(flagged) == [k \in 1..Len(flagged) |-> flagged[k].entry.name]
        Pass(r) ==
            [tic |-> TIC(t.dictLength, [i \in 1..Len(r) |-> r[i].entry], t.dataChunk),
             invalidEntries |-> NamesOf(SelectSeq(r, LAMBDA x : ~x.valid)),
             localDictLength |-> DictSum([i \in 1..Len(r) |-> r[i].entry])]
    IN  Pass([i \in 1..Len(t.dict) |-> ValidateEntry(t.dict[i], Len(t.dataChunk))])

\* invalidEntries.forEach(e => this.removeEntry(e))
RECURSIVE RemoveAll(_, _)
RemoveAll(t, names) ==
    IF names = <<>> THEN t
    ELSE RemoveAll(RemoveEntryOf(t, Head(names)), Tail(names))

\* validate(alreadyValidated) on the container t.  The result records the
\* container left behind, the number of passes over the dictionary, and of the
\* first pass the number of entries flagged and the number actually removed.
RECURSIVE ValidateOf(_, _)
ValidateOf(t, alreadyValidated) ==
    LET Rerun(flagged, removed, v) ==
            [tic |-> v.tic, passes |-> 1 + v.passes,
             flagged |-> flagged, removed |-> removed]
        Removed(p, r) ==
            IF alreadyValidated
            THEN [tic |-> r, passes |-> 1, flagged |-> Len(p.invalidEntries),
                  removed |-> Len(p.tic.dict) - Len(r.dict)]
            ELSE Rerun(Len(p.invalidEntries), Len(p.tic.dict) - Len(r.dict),
                       ValidateOf(r, TRUE))
        Passed(p) ==
            IF p.invalidEntries = <<>>
            THEN [tic |-> p.tic, passes |-> 1, flagged |-> 0, removed |-> 0]
            ELSE Removed(p, RemoveAll(p.tic, p.invalidEntries))
    IN  Passed(ValidatePass(t))

\* the bytes encode writes for one dictionary entry; setUint8 stores its
\* argument modulo 256
EntryBytes(x) ==
    U32Bytes(x.byteOffset) \o U32Bytes(x.width) \o U32Bytes(x.height)
    \o << (((ticColorFormats(x.colorFormat) - 1) * 64) + (Log2(x.bitDepth) * 16)) % 256 >>
    \o << x.nameLength % 256 >>
    \o TextEncode(x.name)

\* encode() on the container t: validate(), then the dictionary is written
\* from offset 4 into a zeroed buffer of dictLength + dataChunk.length + 4
\* bytes and dataChunk is copied to offset dictLength + 4.  A write past the
\* end of the buffer (or a negative buffer length or copy offset) raises a
\* RangeError: threw is TRUE and no bytes are returned.
EncodeOf(t) ==
    LET Written(v, head, entries) ==
            LET size == v.dictLength + Len(v.dataChunk) + 4
                threw == size < 4 \/ 4 + Len(entries) > size \/ v.dictLength + 4 < 0
            IN  [tic |-> v,
                 threw |-> threw,
                 bytes |-> IF threw THEN <<>>
                           ELSE [i \in 1..size |->
                                   IF i > v.dictLength + 4
                                   THEN v.dataChunk[i - v.dictLength - 4]
                                   ELSE IF i <= 4 THEN head[i]
                                   ELSE IF i - 4 <= Len(entries) THEN entries[i - 4]
                                   ELSE 0]]
        Validated(v) ==
            Written(v, U32Bytes(v.dictLength),
                    Flatten([i \in 1..Len(v.dict) |-> EntryBytes(v.dict[i])]))
    IN  Validated(ValidateOf(t, FALSE).tic)

\* the loop of TIC.from from the 0-based cursor on.  A DataView read past the
\* end of raw raises a RangeError, which ends the loop (oob); subarray clamps.
RECURSIVE ParseDict(_, _, _, _)
ParseDict(raw, cursor, dl, d) ==
    IF ~(cursor < dl + 4) THEN [dict |-> d, oob |-> FALSE, wide |-> FALSE]
    ELSE IF cursor + 14 > Len(raw) THEN [dict |-> d, oob |-> TRUE, wide |-> FALSE]
    ELSE IF Wide(raw, cursor) \/ Wide(raw, cursor + 4) \/ Wide(raw, cursor + 8)
    THEN [dict |-> d, oob |-> FALSE, wide |-> TRUE]
    ELSE LET formatByte == raw[cursor + 12 + 1]
             nameLength == raw[cursor + 13 + 1]
             Named(name) ==
                 ParseDict(raw, cursor + 14 + nameLength, dl,
                     MapSet(d, name,
                         [key |-> name,
                          byteOffset |-> U32At(raw, cursor),
                          width |-> U32At(raw, cursor + 4),
                          height |-> U32At(raw, cursor + 8),
                          colorFormat |-> ticColorFormatsRev((formatByte \div 64) + 1),
                          bitDepth |-> Pow2((formatByte \div 16) % 4),
                          nameLength |-> nameLength,
                          name |-> name]))
         IN  Named(TextDecode(Subarray(raw, cursor + 14, cursor + 14 + nameLength)))

\* a TIC.from whose catch block returns a new, empty container
FromOf_DiscardOnError(raw) ==
    LET isWide == Len(raw) >= 4 /\ Wide(raw, 0)
        dl == IF Len(raw) >= 4 /\ ~isWide THEN U32At(raw, 0) ELSE 0
        Parsed(p) ==
            [tic |-> IF p.oob THEN EmptyTIC
                     ELSE TIC(dl, p.dict, Subarray(raw, dl + 4, Len(raw))),
             oob |-> p.oob, wide |-> isWide \/ p.wide]
    IN  Parsed(ParseDict(raw, 4, dl, <<>>))

\* TIC.from(raw): the container returned and whether a read left the input.
\* wide tells that the input holds a 32-bit field of 2^16 or more, which the
\* model does not read.
FromOf(raw) ==
    LET isWide == Len(raw) >= 4 /\ Wide(raw, 0)
        dl == IF Len(raw) >= 4 /\ ~isWide THEN U32At(raw, 0) ELSE 0
        Parsed(p) ==
            [tic |-> TIC(dl, p.dict, Subarray(raw, dl + 4, Len(raw))),
             oob |-> p.oob, wide |-> isWide \/ p.wide]
    IN  Parsed(ParseDict(raw, 4, dl, <<>>))

(***************************************************************************)
(* Inputs.                                                                 *)
(***************************************************************************)
\* entry names: "a", "é" (two bytes in UTF-8) and a name of "a"s one byte
\* longer than DICT_NAME_MAX_LENGTH
NameA == << 97 >>
NameE == << 233 >>
LongName == [i \in 1..(DICT_NAME_MAX_LENGTH + 1) |-> 97]

Names == {NameA, NameE}

AllNames == Names \cup {LongName}

\* pixel i of n of an image whose narrowest format is kind: every pixel but
\* one fits a narrower format, so that the choice depends on the whole image
PixelOf(kind, i, n) ==
    CASE kind = "GrayScale" -> << 10 + i, 10 + i, 10 + i, 255 >>
      [] kind = "GrayScaleAlpha" ->
            << 10 + i, 10 + i, 10 + i, IF i = n - 1 THEN 100 ELSE 255 >>
      [] kind = "RGB" ->
            IF i = n - 1 THEN << 10 + i, 20 + i, 30 + i, 255 >>
                         ELSE << 10 + i, 10 + i, 10 + i, 255 >>
      [] kind = "RGBA" ->
            IF i = 0 THEN << 10, 20, 30, IF n = 1 THEN 100 ELSE 255 >>
                     ELSE << 10 + i, 10 + i, 10 + i, 100 + i >>

\* new PNG(raw, width, height) with raw.length = width * height * 4
ImageOf(w, h, kind) ==
    [width |-> w, height |-> h,
     raw |-> Flatten([i \in 1..(w * h) |-> PixelOf(kind, i - 1, w * h)])]

Images == { ImageOf(w, h, k) : w \in 0..MaxW, h \in 1..MaxH, k \in TicColorFormatNames }

\* the bit depths writeEntry is called with
WriteDepths == {8}

(***************************************************************************)
(* State and actions.  last records the call that led to the state.        *)
(***************************************************************************)
T == TIC(dictLength, dict, dataChunk)

\* op and name: the call; found: whether the dictionary had the name when a
\* removeEntry or readEntry was called; passes, flagged, removed: what a
\* validate did; oob, raw: what a TIC.from read; threw: an exception left
\* the call
NoCall == [op |-> "new", name |-> <<>>, found |-> FALSE, passes |-> 0,
           flagged |-> 0, removed |-> 0, oob |-> FALSE, threw |-> FALSE,
           raw |-> <<>>]

\* the container becomes t; a call on the container is no call of the codec
Become(t) ==
    /\ dictLength' = t.dictLength
    /\ dict' = t.dict
    /\ dataChunk' = t.dataChunk
    /\ UNCHANGED call

Init ==
    /\ dictLength = EmptyTIC.dictLength
    /\ dict = EmptyTIC.dict
    /\ dataChunk = EmptyTIC.dataChunk
    /\ last = NoCall
    /\ call = [fn |-> "none"]

\* the model stops writing at MaxEntries entries, at MaxData bytes of data
\* and once dictLength exceeds the entries' sum by more than one short entry
WithinBounds(t) ==
    /\ Len(t.dict) <= MaxEntries
    /\ Len(t.dataChunk) <= MaxData
    /\ t.dictLength - DictSum(t.dict) <= DICT_ENTRY_BASE_LENGTH + 2

WriteEntry(n, im, bd) ==
    \E t \in { WriteEntryOf(T, n, im, bd) } :
        /\ WithinBounds(t)
        /\ Become(t)
        /\ last' = [NoCall EXCEPT !.op = "writeEntry", !.name = n]

RemoveEntry(n) ==
    /\ Become(RemoveEntryOf(T, n))
    /\ last' = [NoCall EXCEPT !.op = "removeEntry", !.name = n,
                              !.found = Has(dict, n)]

ReadEntry(n) ==
    /\ UNCHANGED <<dictLength, dict, dataChunk, call>>
    /\ last' = [NoCall EXCEPT !.op = "readEntry", !.name = n,
                              !.found = Has(dict, n)]

Validate ==
    \E r \in { ValidateOf(T, FALSE) } :
        /\ Become(r.tic)
        /\ last' = [NoCall EXCEPT !.op = "validate", !.passes = r.passes,
                                  !.flagged = r.flagged, !.removed = r.removed]

Encode ==
    \E r \in { EncodeOf(T) } :
        /\ Become(r.tic)
        /\ last' = [NoCall EXCEPT !.op = "encode", !.threw = r.threw]

\* writeEntry, removeEntry and readEntry on a container that starts empty
NextWR ==
    \/ \E n \in Names, im \in Images, bd \in WriteDepths : WriteEntry(n, im, bd)
    \/ \E n \in Names : RemoveEntry(n)
    \/ \E n \in Names : ReadEntry(n)

SpecWR == Init /\ [][NextWR]_vars

\* writeEntry at bit depth 8 under names of at most 255 bytes that the
\* dictionary does not hold, and removeEntry
WriteFresh(n, im) ==
    /\ ~Has(dict, n)
    /\ Len(TextEncode(n)) <= 255
    /\ WriteEntry(n, im, 8)

NextFresh ==
    \/ \E n \in Names, im \in Images : WriteFresh(n, im)
    \/ \E n \in Names : RemoveEntry(n)

SpecFresh == Init /\ [][NextFresh]_vars

\* the entries new TIC(dictLength, dict, dataChunk) is given in the model:
\* one-row entries of bit depth 8, placed at offset 0 or 1 whatever their
\* spans, each with the nameLength of its name
ShortEntries ==
    { [key |-> k, name |-> k, nameLength |-> Len(TextEncode(k)),
       byteOffset |-> o, width |-> w, height |-> 1,
       colorFormat |-> f, bitDepth |-> 8] :
         k \in Names, o \in {0, 1}, w \in 0..MaxW, f \in {"GrayScale", "RGBA"} }

\* GrayScale entries under the name longer than DICT_NAME_MAX_LENGTH
LongEntries ==
    { [key |-> LongName, name |-> LongName, nameLength |-> Len(TextEncode(LongName)),
       byteOffset |-> o, width |-> w, height |-> 1,
       colorFormat |-> "GrayScale", bitDepth |-> 8] :
         o \in {0, 1}, w \in 0..MaxW }

RECURSIVE SeqsUpTo(_, _)
SeqsUpTo(S, n) ==
    IF n = 0 THEN { <<>> }
    ELSE SeqsUpTo(S, n - 1)
         \cup { Append(q, e) : q \in { p \in SeqsUpTo(S, n - 1) : Len(p) = n - 1 },
                               e \in S }

\* the dictionaries of at most MaxEntries of the entries S, no key twice
DictsOf(S) ==
    { d \in SeqsUpTo(S, MaxEntries) :
        \A i, j \in 1..Len(d) : i /= j => d[i].key /= d[j].key }

DataOfLen(n) == [i \in 1..n |-> 200 + i]

\* new TIC(dl, d, dc) with arguments of the caller's choice
New(dl, d, dc) ==
    /\ Become(TIC(dl, d, dc))
    /\ last' = [NoCall EXCEPT !.op = "constructor"]

\* the calls on a container that the constructor was given: a dictionary of
\* entries with short names over a dataChunk of any length up to MaxData,
\* and a dictLength that is the entries' sum or 0
Next ==
    \/ /\ last.op = "new"
       /\ \E d \in DictsOf(ShortEntries), n \in 0..MaxData :
             \E dl \in {0, DictSum(d)} : New(dl, d, DataOfLen(n))
    \/ Validate
    \/ Encode
    \/ \E n \in Names : RemoveEntry(n)

Spec == Init /\ [][Next]_vars

\* the same calls on a container whose dictionary has an entry with the
\* long name, alone or with an entry named "a"
NextLong ==
    \/ /\ last.op = "new"
       /\ \E d \in DictsOf(LongEntries \cup { e \in ShortEntries : e.key = NameA }),
             n \in 0..MaxData :
             /\ \E i \in 1..Len(d) : d[i].key = LongName
             /\ \E dl \in {0, DictSum(d)} : New(dl, d, DataOfLen(n))
    \/ Validate
    \/ Encode
    \/ \E n \in {NameA, LongName} : RemoveEntry(n)

SpecLong == Init /\ [][NextLong]_vars

\* the longest file a container within the bounds encodes to
MaxRaw == 4 + MaxEntries * (DICT_ENTRY_BASE_LENGTH + 2) + MaxData

\* c.encode() is written to a file, the file loses all but its first k
\* bytes, and TIC.from reads what is left
From(k) ==
    \E e \in { EncodeOf(T) } :
        /\ ~e.threw
        /\ k <= Len(e.bytes)
        /\ \E raw \in { Subarray(e.bytes, 0, k) } :
              \E r \in { FromOf(raw) } :
                  /\ ~r.wide
                  /\ Become(r.tic)
                  /\ last' = [NoCall EXCEPT !.op = "from", !.oob = r.oob, !.raw = raw]

\* a container is written under fresh names, and then read back once from
\* its truncated file
NextFile ==
    \/ \E n \in Names, im \in Images : last.op /= "from" /\ WriteFresh(n, im)
    \/ \E n \in Names : last.op /= "from" /\ RemoveEntry(n)
    \/ \E k \in 0..MaxRaw : last.op /= "from" /\ From(k)

SpecFile == Init /\ [][NextFile]_vars

\* the name bytes of the entries in the files TIC.from is given; 255 is not
\* UTF-8 and decodes to U+FFFD
FileNameBytes == { <<>>, << 97 >>, << 255 >> }

\* the 14 fixed bytes and the name bytes of a one-row entry in a file
FileEntry(byteOffset, width, formatByte, nameBytes) ==
    U32Bytes(byteOffset) \o U32Bytes(width) \o U32Bytes(1)
    \o << formatByte >> \o << Len(nameBytes) >> \o nameBytes

\* the inputs of TIC.from: the empty file, and files of a header that holds
\* any of a few dictionary lengths, one entry (GrayScale or RGBA at bit depth
\* 8) and up to two more bytes
Files ==
    { <<>> } \cup
    { U32Bytes(dl) \o FileEntry(o, w, f, nb) \o DataOfLen(n) :
        dl \in {0, 1, DICT_ENTRY_BASE_LENGTH, DICT_ENTRY_BASE_LENGTH + 1},
        o \in {0, 1}, w \in {0, 1}, f \in {48, 240}, nb \in FileNameBytes,
        n \in 0..2 }

\* TIC.from(b)
FromBytes(b) ==
    \E r \in { FromOf(b) } :
        /\ ~r.wide
        /\ Become(r.tic)
        /\ last' = [NoCall EXCEPT !.op = "from", !.oob = r.oob, !.raw = b]

\* TIC.from of any file, followed by any calls on the container it returns
NextBytes ==
    \/ \E b \in Files : last.op = "new" /\ FromBytes(b)
    \/ Validate
    \/ Encode
    \/ \E i \in 1..Len(dict) : RemoveEntry(dict[i].key)
    \/ \E n \in Names : ReadEntry(n)
    \/ \E im \in Images : WriteEntry(NameA, im, 8)

SpecBytes == Init /\ [][NextBytes]_vars

(***************************************************************************)
(* The PNG codec: src/types.ts, src/binary/encode.ts, src/binary/decode.ts *)
(***************************************************************************)
ColorFormatNames == {"GrayScale", "RGB", "Indexed", "GrayScaleAlpha", "RGBA"}

\* the legality table: the bit depths each colour format may have
ColorFormats(f) ==
    CASE f = "GrayScale" -> {1, 2, 4, 8}
      [] f = "RGB" -> {8}
      [] f = "Indexed" -> {1, 2, 4, 8}
      [] f = "GrayScaleAlpha" -> {8}
      [] f = "RGBA" -> {8}

colorFormatChannels(f) ==
    CASE f = "Indexed" -> 1
      [] f = "GrayScale" -> 1
      [] f = "GrayScaleAlpha" -> 2
      [] f = "RGB" -> 3
      [] f = "RGBA" -> 4

colorFormatNumbers(f) ==
    CASE f = "GrayScale" -> 0
      [] f = "RGB" -> 2
      [] f = "Indexed" -> 3
      [] f = "GrayScaleAlpha" -> 4
      [] f = "RGBA" -> 6

\* colorFormatNumbers.revGet: no format has the number 1, 5 or 7 and up
colorFormatNumbersRev(n) ==
    IF \E f \in ColorFormatNames : colorFormatNumbers(f) = n
    THEN CHOOSE f \in ColorFormatNames : colorFormatNumbers(f) = n
    ELSE "undefined"

PNG_SIGNATURE == << 137, 80, 78, 71, 13, 10, 26, 10 >>

\* the chunk types, as character codes
IHDR == << 73, 72, 68, 82 >>
PLTE == << 80, 76, 84, 69 >>
tRNS == << 116, 82, 78, 83 >>
gAMA == << 103, 65, 77, 65 >>
IDAT == << 73, 68, 65, 84 >>
IEND == << 73, 69, 78, 68 >>

RECURSIVE SumOf(_)
SumOf(s) == IF s = <<>> THEN 0 ELSE Head(s) + SumOf(Tail(s))

\* The check value writeChunk appends.  crc32 is a library function; decode
\* skips these four bytes.  The model writes a 16-bit sum of the same bytes
\* (type and data) in the four-byte big-endian field.
crc32(crcData) == SumOf(crcData) % 65536

\* Adler-32 of a byte sequence, as its four big-endian bytes
RECURSIVE AdlerB(_, _, _)
AdlerB(s, a, b) ==
    IF s = <<>> THEN << b \div 256, b % 256, a \div 256, a % 256 >>
    ELSE AdlerB(Tail(s), (a + Head(s)) % 65521, (b + ((a + Head(s)) % 65521)) % 65521)

Adler32(s) == AdlerB(s, 1, 0)

\* deflate is a library function.  The model writes the zlib stream that
\* holds the bytes in one stored block: the two header bytes, the block
\* header with the length and its complement, the bytes, and Adler-32.
deflate(s) ==
    << 120, 1, 1, Len(s) % 256, Len(s) \div 256,
       255 - (Len(s) % 256), 255 - (Len(s) \div 256) >>
    \o s \o Adler32(s)

\* DecompressionStream("deflate") on such a stream: the bytes of the stored
\* block, or an error when the stream is not well formed
inflate(z) ==
    IF /\ Len(z) >= 11
       /\ SubSeq(z, 1, 3) = << 120, 1, 1 >>
       /\ z[6] = 255 - z[4]
       /\ z[7] = 255 - z[5]
       /\ Len(z) = 11 + z[4] + 256 * z[5]
       /\ SubSeq(z, Len(z) - 3, Len(z)) = Adler32(SubSeq(z, 8, Len(z) - 4))
    THEN [threw |-> FALSE, bytes |-> SubSeq(z, 8, Len(z) - 4)]
    ELSE [threw |-> TRUE, bytes |-> <<>>]

writeChunk(type, data) ==
    U32Bytes(Len(data)) \o type \o data \o U32Bytes(crc32(type \o data))

writeIHDR(width, height, bitDepth, colorFormat) ==
    writeChunk(IHDR, U32Bytes(width) \o U32Bytes(height)
                     \o << bitDepth, colorFormatNumbers(colorFormat), 0, 0, 0 >>)

encode_NoPaletteCheck(opts) ==
    LET bitsPerPixel == colorFormatChannels(opts.colorFormat) * opts.bitDepth
        bytesPerRow == CeilDiv(opts.width * bitsPerPixel, 8)
        expectedSize == bytesPerRow * opts.height
        scanline(y) ==
            << 0 >> \o Subarray(opts.raw, y * bytesPerRow, y * bytesPerRow + bytesPerRow)
        rawScanlines == Flatten([y \in 1..opts.height |-> scanline(y - 1)])
        Threw == [threw |-> TRUE, bytes |-> <<>>]
    IN  IF opts.bitDepth < 8 /\ opts.colorFormat /= "GrayScale" /\ opts.colorFormat /= "Indexed"
        THEN Threw
        ELSE IF Len(opts.raw) /= expectedSize
        THEN Threw
        ELSE [threw |-> FALSE,
              bytes |-> PNG_SIGNATURE
                        \o writeIHDR(opts.width, opts.height, opts.bitDepth, opts.colorFormat)
                        \o (IF opts.colorFormat = "Indexed"
                            THEN writeChunk(PLTE, opts.palette) ELSE <<>>)
                        \o writeChunk(IDAT, deflate(rawScanlines))
                        \o writeChunk(IEND, <<>>)]

\* encode(opts): opts.hasPalette tells whether opts.palette is given.  The
\* result is the file, or threw when encode raises an error
encode(opts) ==
    LET bitsPerPixel == colorFormatChannels(opts.colorFormat) * opts.bitDepth
        bytesPerRow == CeilDiv(opts.width * bitsPerPixel, 8)
        expectedSize == bytesPerRow * opts.height
        scanline(y) ==
            << 0 >> \o Subarray(opts.raw, y * bytesPerRow, y * bytesPerRow + bytesPerRow)
        rawScanlines == Flatten([y \in 1..opts.height |-> scanline(y - 1)])
        Threw == [threw |-> TRUE, bytes |-> <<>>]
    IN  IF opts.bitDepth < 8 /\ opts.colorFormat /= "GrayScale" /\ opts.colorFormat /= "Indexed"
        THEN Threw
        ELSE IF Len(opts.raw) /= expectedSize
        THEN Threw
        ELSE IF opts.colorFormat = "Indexed" /\ ~opts.hasPalette
        THEN Threw
        ELSE [threw |-> FALSE,
              bytes |-> PNG_SIGNATURE
                        \o writeIHDR(opts.width, opts.height, opts.bitDepth, opts.colorFormat)
                        \o (IF opts.colorFormat = "Indexed"
                            THEN writeChunk(PLTE, opts.palette) ELSE <<>>)
                        \o writeChunk(IDAT, deflate(rawScanlines))
                        \o writeChunk(IEND, <<>>)]

\* image[i] for a 0-based i, and 0 where JavaScript's bit operators take the
\* missing byte as 0
ByteOr0(s, i) == IF i >= 0 /\ i < Len(s) THEN s[i + 1] ELSE 0

\* (chunkData[0] << 24) | (chunkData[1] << 16) | (chunkData[2] << 8) |
\* chunkData[3]: the bit operators give a signed 32-bit integer
Int32Of(chunkData) ==
    (IF ByteOr0(chunkData, 0) >= 128 THEN ByteOr0(chunkData, 0) - 256
     ELSE ByteOr0(chunkData, 0)) * 16777216
    + ByteOr0(chunkData, 1) * 65536 + ByteOr0(chunkData, 2) * 256 + ByteOr0(chunkData, 3)

\* what the chunk loop of decode has read so far
NoChunks ==
    [threw |-> FALSE, width |-> 0, height |-> 0, bitDepth |-> 8, colorFormat |-> "RGBA",
     hasPalette |-> FALSE, palette |-> <<>>, hasTrns |-> FALSE, trns |-> <<>>,
     hasGamma |-> FALSE, gamma |-> 0, idatChunks |-> <<>>]

readChunk_NoCrcSkip(image, offset) ==
    [threw |-> offset + 4 > Len(image),
     type |-> Subarray(image, offset + 4, offset + 8),
     chunkData |-> IF offset + 4 > Len(image) THEN <<>>
                   ELSE Subarray(image, offset + 8, offset + 8 + U32At(image, offset)),
     nextOffset |-> IF offset + 4 > Len(image) THEN offset
                    ELSE offset + 8 + U32At(image, offset)]

\* readChunk(offset): getUint32 raises a RangeError past the end of the image
readChunk(image, offset) ==
    [threw |-> offset + 4 > Len(image),
     type |-> Subarray(image, offset + 4, offset + 8),
     chunkData |-> IF offset + 4 > Len(image) THEN <<>>
                   ELSE Subarray(image, offset + 8, offset + 8 + U32At(image, offset)),
     nextOffset |-> IF offset + 4 > Len(image) THEN offset
                    ELSE offset + 8 + U32At(image, offset) + 4]

ReadIHDR_CompressionOnly(image, offset, st) ==
    IF offset + 21 > Len(image) THEN [st EXCEPT !.threw = TRUE]
    ELSE IF image[offset + 19] /= 0
    THEN [st EXCEPT !.threw = TRUE]
    ELSE [st EXCEPT !.width = U32At(image, offset + 8),
                    !.height = U32At(image, offset + 12),
                    !.bitDepth = image[offset + 17],
                    !.colorFormat = colorFormatNumbersRev(image[offset + 18])]

\* the IHDR branch of the loop: a read past the end raises an error, as a
\* RangeError of getUint32 or because the compression byte is not 0
ReadIHDR(image, offset, st) ==
    IF offset + 21 > Len(image) THEN [st EXCEPT !.threw = TRUE]
    ELSE IF image[offset + 19] /= 0 \/ image[offset + 20] /= 0 \/ image[offset + 21] /= 0
    THEN [st EXCEPT !.threw = TRUE]
    ELSE [st EXCEPT !.width = U32At(image, offset + 8),
                    !.height = U32At(image, offset + 12),
                    !.bitDepth = image[offset + 17],
                    !.colorFormat = colorFormatNumbersRev(image[offset + 18])]

\* the loop over the chunks, from offset on
RECURSIVE ReadChunks(_, _, _)
ReadChunks(image, offset, st) ==
    IF offset >= Len(image) THEN st
    ELSE LET Step(c) ==
                 IF c.threw THEN [st EXCEPT !.threw = TRUE]
                 ELSE IF c.type = IHDR
                 THEN LET Checked(h) ==
                              IF h.threw THEN h ELSE ReadChunks(image, c.nextOffset, h)
                      IN  Checked(ReadIHDR(image, offset, st))
                 ELSE IF c.type = PLTE
                 THEN ReadChunks(image, c.nextOffset,
                                 [st EXCEPT !.hasPalette = TRUE, !.palette = c.chunkData])
                 ELSE IF c.type = tRNS
                 THEN ReadChunks(image, c.nextOffset,
                                 [st EXCEPT !.hasTrns = TRUE, !.trns = c.chunkData])
                 ELSE IF c.type = IDAT
                 THEN ReadChunks(image, c.nextOffset,
                                 [st EXCEPT !.idatChunks = Append(@, c.chunkData)])
                 ELSE IF c.type = gAMA
                 THEN ReadChunks(image, c.nextOffset,
                                 [st EXCEPT !.hasGamma = TRUE, !.gamma = Int32Of(c.chunkData)])
                 ELSE IF c.type = IEND
                 THEN st
                 ELSE ReadChunks(image, c.nextOffset, st)
         IN  Step(readChunk(image, offset))

Abs(n) == IF n < 0 THEN -n ELSE n

paethPredictor_NeverUpLeft(a, b, c) ==
    LET p == a + b - c
        pa == Abs(p - a)
        pb == Abs(p - b)
    IN  IF pa <= pb THEN a ELSE b

paethPredictor(a, b, c) ==
    LET p == a + b - c
        pa == Abs(p - a)
        pb == Abs(p - b)
        pc == Abs(p - c)
    IN  IF pa <= pb /\ pa <= pc THEN a ELSE IF pb <= pc THEN b ELSE c

\* the loop over x for one row: the bytes of curr.  The caller has checked
\* that the filter is 0 to 4.
DefilterRow(filter, scanline, prev, bpp) ==
    LET curr[x \in 0..(Len(scanline) - 1)] ==
            LET rawByte == scanline[x + 1]
                left == IF x >= bpp THEN curr[x - bpp] ELSE 0
                up == prev[x + 1]
                upLeft == IF x >= bpp THEN prev[x - bpp + 1] ELSE 0
            IN  CASE filter = 0 -> rawByte
                  [] filter = 1 -> (rawByte + left) % 256
                  [] filter = 2 -> (rawByte + up) % 256
                  [] filter = 3 -> (rawByte + ((left + up) \div 2)) % 256
                  [] filter = 4 -> (rawByte + paethPredictor(left, up, upLeft)) % 256
    IN  [i \in 1..Len(scanline) |-> curr[i - 1]]

\* the loop over the rows from row y on: the default branch of the switch is
\* inside the loop over x, so it is reached only when the row has a byte
RECURSIVE DefilterRows(_, _, _, _, _, _)
DefilterRows(decompressed, y, height, rowLength, bpp, prev) ==
    IF y >= height THEN [threw |-> FALSE, raw |-> <<>>]
    ELSE LET filter == decompressed[y * (1 + rowLength) + 1]
             Rest(curr) ==
                 LET Joined(r) == [threw |-> r.threw,
                                   raw |-> IF r.threw THEN <<>> ELSE curr \o r.raw]
                 IN  Joined(DefilterRows(decompressed, y + 1, height, rowLength, bpp, curr))
         IN  IF rowLength > 0 /\ filter > 4 THEN [threw |-> TRUE, raw |-> <<>>]
             ELSE IF rowLength = 0 THEN Rest(<<>>)
             ELSE Rest(DefilterRow(filter,
                                   SubSeq(decompressed, y * (1 + rowLength) + 2,
                                          (y + 1) * (1 + rowLength)),
                                   prev, bpp))

DecodeThrew ==
    [threw |-> TRUE, raw |-> <<>>, width |-> 0, height |-> 0, colorFormat |-> "RGBA",
     bitDepth |-> 8, hasPalette |-> FALSE, palette |-> <<>>, hasTrns |-> FALSE,
     trns |-> <<>>, hasGamma |-> FALSE, gamma |-> 0]

\* decode(image): the DecodeResult, or threw when decode raises an error.
\* gamma holds the integer that decode divides by 100000.
decode(image) ==
    LET Defiltered(st, r) ==
            IF r.threw THEN DecodeThrew
            ELSE [threw |-> FALSE, raw |-> r.raw, width |-> st.width, height |-> st.height,
                  colorFormat |-> st.colorFormat, bitDepth |-> st.bitDepth,
                  hasPalette |-> st.colorFormat = "Indexed",
                  palette |-> IF st.colorFormat = "Indexed" THEN st.palette ELSE <<>>,
                  hasTrns |-> st.hasTrns, trns |-> st.trns,
                  hasGamma |-> st.hasGamma, gamma |-> st.gamma]
        Inflated(st, z) ==
            IF z.threw \/ st.colorFormat = "undefined" THEN DecodeThrew
            ELSE LET rowLength == CeilDiv(st.bitDepth * colorFormatChannels(st.colorFormat)
                                          * st.width, 8)
                     bpp == CeilDiv(st.bitDepth * colorFormatChannels(st.colorFormat), 8)
                 IN  IF Len(z.bytes) /= st.height * (1 + rowLength) THEN DecodeThrew
                     ELSE Defiltered(st, DefilterRows(z.bytes, 0, st.height, rowLength, bpp,
                                                      [i \in 1..rowLength |-> 0]))
        Read(st) ==
            IF st.threw THEN DecodeThrew
            ELSE Inflated(st, inflate(Flatten(st.idatChunks)))
    IN  IF Subarray(image, 0, 8) /= PNG_SIGNATURE THEN DecodeThrew
        ELSE Read(ReadChunks(image, 8, NoChunks))

(***************************************************************************)
(* The calls of the codec and the inputs they are given.                   *)
(***************************************************************************)
\* the largest width and height of the images given to the codec
MaxPngW == 2
MaxPngH == 2

\* the bytes of a raw buffer of length n: one of two fixed sequences that
\* hold small and large values
RawSeeds == {37, 101}

RawPattern(n, k) == [i \in 1..n |-> (k * i * i + 3 * k) % 256]

\* opts.palette: not given, empty, or two colours
Palettes ==
    { [has |-> FALSE, bytes |-> <<>>],
      [has |-> TRUE, bytes |-> <<>>],
      [has |-> TRUE, bytes |-> << 10, 20, 30, 73, 69, 78 >>] }

\* height * ceil(width * bitDepth * channels / 8)
RawLength(w, h, f, d) == h * CeilDiv(w * d * colorFormatChannels(f), 8)

EncodeOptsOf(w, h, f, d, n, k, p) ==
    [raw |-> RawPattern(n, k), width |-> w, height |-> h, colorFormat |-> f,
     bitDepth |-> d, hasPalette |-> p.has, palette |-> p.bytes]

\* the arguments of encode: every format at every bit depth 1, 2, 4, 8, a
\* raw buffer of the expected length, one byte longer or one byte shorter
PngOpts ==
    UNION { { EncodeOptsOf(w, h, f, d, n, k, p) :
                n \in { m \in {RawLength(w, h, f, d) - 1, RawLength(w, h, f, d),
                               RawLength(w, h, f, d) + 1} : m >= 0 },
                k \in RawSeeds, p \in Palettes } :
            w \in 0..MaxPngW, h \in 0..MaxPngH, f \in ColorFormatNames, d \in BitDepths }

\* the record of a call of the codec: the function, the arguments of encode
\* and its result, how the image given to decode was made, and the result of
\* decode
CodecCall ==
    [fn |-> "none", opts |-> EncodeOptsOf(0, 0, "RGBA", 8, 0, 37, [has |-> FALSE, bytes |-> <<>>]),
     encoded |-> FALSE, out |-> [threw |-> FALSE, bytes |-> <<>>],
     filters |-> <<>>, methods |-> << 0, 0, 0 >>, delta |-> 0,
     image |-> <<>>, res |-> DecodeThrew]

\* encode(opts)
PngEncode(opts) ==
    /\ call.fn = "none"
    /\ call' = [CodecCall EXCEPT !.fn = "encode", !.opts = opts, !.out = encode(opts)]
    /\ UNCHANGED <<dictLength, dict, dataChunk, last>>

\* decode of the bytes that encode returned
PngDecode ==
    /\ call.fn = "encode"
    /\ ~call.out.threw
    /\ call' = [call EXCEPT !.fn = "decode", !.encoded = TRUE, !.image = call.out.bytes,
                            !.res = decode(call.out.bytes)]
    /\ UNCHANGED <<dictLength, dict, dataChunk, last>>

\* The Paeth predictor of the PNG standard, used by a writer of files
PaethStd(a, b, c) ==
    IF Abs(b - c) <= Abs(a - c) /\ Abs(b - c) <= Abs(a + b - 2 * c) THEN a
    ELSE IF Abs(a - c) <= Abs(a + b - 2 * c) THEN b
    ELSE c

\* The PNG filter of one row, as a writer of files applies it: every byte
\* minus its prediction from the bytes of the unfiltered rows, modulo 256.
\* A filter type above 4 names no filter; the row is stored as it is.
FilterRow(filter, row, prevRow, bpp) ==
    [i \in 1..Len(row) |->
        LET left == IF i - 1 >= bpp THEN row[i - bpp] ELSE 0
            up == prevRow[i]
            upLeft == IF i - 1 >= bpp THEN prevRow[i - bpp] ELSE 0
            predicted == CASE filter = 1 -> left
                           [] filter = 2 -> up
                           [] filter = 3 -> (left + up) \div 2
                           [] filter = 4 -> PaethStd(left, up, upLeft)
                           [] OTHER -> 0
        IN  (row[i] + 256 - predicted) % 256]

\* the filter byte and the filtered bytes of every row of raw
FilterRows(raw, height, rowLength, bpp, filters) ==
    Flatten([y \in 1..height |->
        << filters[y] >>
        \o FilterRow(filters[y],
                     SubSeq(raw, (y - 1) * rowLength + 1, y * rowLength),
                     IF y = 1 THEN [i \in 1..rowLength |-> 0]
                     ELSE SubSeq(raw, (y - 2) * rowLength + 1, (y - 1) * rowLength),
                     bpp)])

\* the inflated data with one byte more (delta 1) or one byte less (delta -1)
Resized(data, delta) ==
    IF delta = 1 THEN Append(data, 0)
    ELSE IF delta = -1 THEN SubSeq(data, 1, Len(data) - 1)
    ELSE data

\* A PNG file made by some writer: the signature bytes sig, IHDR with the
\* three method bytes, PLTE when the image is Indexed, one IDAT with the
\* rows of o.raw filtered by the filter types given per row, IEND.
PngFile(o, sig, methods, filters, delta) ==
    sig
    \o writeChunk(IHDR, U32Bytes(o.width) \o U32Bytes(o.height)
                        \o << o.bitDepth, colorFormatNumbers(o.colorFormat) >> \o methods)
    \o (IF o.colorFormat = "Indexed" THEN writeChunk(PLTE, o.palette) ELSE <<>>)
    \o writeChunk(IDAT,
                  deflate(Resized(FilterRows(o.raw, o.height,
                                             CeilDiv(o.width * o.bitDepth
                                                     * colorFormatChannels(o.colorFormat), 8),
                                             CeilDiv(o.bitDepth
                                                     * colorFormatChannels(o.colorFormat), 8),
                                             filters),
                                  delta)))
    \o writeChunk(IEND, <<>>)

\* the images in the files: every legal format and bit depth, a raw buffer
\* of the expected length
LegalOpts ==
    UNION { { EncodeOptsOf(w, h, f, d, RawLength(w, h, f, d), k,
                           [has |-> f = "Indexed", bytes |-> IF f = "Indexed"
                                                            THEN << 10, 20, 30, 73, 69, 78 >>
                                                            ELSE <<>>]) :
                k \in RawSeeds, d \in ColorFormats(f) } :
            w \in 0..MaxPngW, h \in 0..MaxPngH, f \in ColorFormatNames }

\* the filter types of the rows: 0 to 4, and 5, which names no filter
FilterTypes == 0..5

FiltersOf(h) == [1..h -> FilterTypes]

\* the first eight bytes of the files: the signature, and the signature with
\* one byte changed or the last byte missing
Signatures ==
    { PNG_SIGNATURE, SubSeq(PNG_SIGNATURE, 1, 7) }
    \cup { [PNG_SIGNATURE EXCEPT ![i] = (@ + 1) % 256] : i \in 1..8 }

\* the three method bytes of IHDR: all 0, or one of them 1
Methods == { << 0, 0, 0 >>, << 1, 0, 0 >>, << 0, 1, 0 >>, << 0, 0, 1 >> }

\* decode(image) of a file
DecodeFile(o, sig, methods, filters, delta) ==
    /\ call.fn = "none"
    /\ \E image \in { PngFile(o, sig, methods, filters, delta) } :
          call' = [CodecCall EXCEPT !.fn = "decode", !.opts = o, !.filters = filters,
                                    !.methods = methods, !.delta = delta,
                                    !.image = image, !.res = decode(image)]
    /\ UNCHANGED <<dictLength, dict, dataChunk, last>>

\* a filter type on every row, the rest of the file well formed
DecodeFiltered ==
    \E o \in LegalOpts : \E filters \in FiltersOf(o.height) :
        DecodeFile(o, PNG_SIGNATURE, << 0, 0, 0 >>, filters, 0)

\* one part of the file wrong: the signature, a method byte, or the length
\* of the inflated data
DecodeDamaged ==
    \E o \in LegalOpts :
        \/ \E sig \in Signatures :
              DecodeFile(o, sig, << 0, 0, 0 >>, [y \in 1..o.height |-> 0], 0)
        \/ \E methods \in Methods :
              DecodeFile(o, PNG_SIGNATURE, methods, [y \in 1..o.height |-> 0], 0)
        \/ \E delta \in {-1, 1} :
              /\ delta = -1 => o.height > 0
              /\ DecodeFile(o, PNG_SIGNATURE, << 0, 0, 0 >>, [y \in 1..o.height |-> 0], delta)

NextPNG ==
    \/ \E opts \in PngOpts : PngEncode(opts)
    \/ PngDecode
    \/ DecodeFiltered
    \/ DecodeDamaged

SpecPNG == Init /\ [][NextPNG]_vars

(***************************************************************************)
(* The bit packer of src/format.ts: packBits and unpackBits with the three *)
(* parameters (bytes, bit depth, normalise).                               *)
(***************************************************************************)
\* a & b for a, b >= 0
RECURSIVE BitAnd(_, _)
BitAnd(a, b) ==
    IF a = 0 \/ b = 0 THEN 0
    ELSE (a % 2) * (b % 2) + 2 * BitAnd(a \div 2, b \div 2)

\* packBits(bytes, desiredBitDepth, normalise).  new Uint8Array(n) takes the
\* integer part of n as the length; the fields that |= writes into a byte do
\* not overlap, so it adds them.
PackBits_LeastSignificantFirst(bytes, desiredBitDepth, normalise) ==
    IF desiredBitDepth < 8
    THEN LET valuesPerByte == 8 \div desiredBitDepth
             Field(i, j) ==
                 LET value == bytes[i * valuesPerByte + j + 1]
                     normalisedValue == value \div (2 ^ (8 - desiredBitDepth))
                 IN  BitAnd(IF normalise THEN normalisedValue ELSE value,
                            2 ^ desiredBitDepth - 1)
                     * 2 ^ (j * desiredBitDepth)
         IN  [k \in 1..((Len(bytes) * desiredBitDepth) \div 8) |->
                SumOf([j \in 1..valuesPerByte |-> Field(k - 1, j - 1)])]
    ELSE bytes

PackBits(bytes, desiredBitDepth, normalise) ==
    IF desiredBitDepth < 8
    THEN LET valuesPerByte == 8 \div desiredBitDepth
             Field(i, j) ==
                 LET value == bytes[i * valuesPerByte + j + 1]
                     normalisedValue == value \div (2 ^ (8 - desiredBitDepth))
                 IN  BitAnd(IF normalise THEN normalisedValue ELSE value,
                            2 ^ desiredBitDepth - 1)
                     * 2 ^ ((valuesPerByte - j - 1) * desiredBitDepth)
         IN  [k \in 1..((Len(bytes) * desiredBitDepth) \div 8) |->
                SumOf([j \in 1..valuesPerByte |-> Field(k - 1, j - 1)])]
    ELSE bytes

\* mapRange(v, [0, max], [0, 255]) of the helper library: the linear map,
\* stored in a byte
MapRange255(v, max) == ((v * 255) \div max) % 256

\* unpackBits(bits, currentBitDepth, normalise)
UnpackBits(bits, currentBitDepth, normalise) ==
    IF currentBitDepth < 8
    THEN LET maxOffset == 8 - currentBitDepth
             modulo == 2 ^ currentBitDepth - 1
             Sample(i) ==
                 BitAnd(bits[((i * currentBitDepth) \div 8) + 1]
                            \div (2 ^ (maxOffset - BitAnd(i * currentBitDepth, maxOffset))),
                        modulo)
         IN  [k \in 1..((Len(bits) * 8) \div currentBitDepth) |->
                IF normalise THEN MapRange255(Sample(k - 1), modulo) ELSE Sample(k - 1)]
    ELSE bits

\* the longest sample array given to packBits
MaxSamples == 8

\* the sample values at a bit depth: the smallest, the largest, and one with
\* both a set and a clear bit
SampleValues(d) == {0, 2 ^ d - 1, 2 ^ d - 2}

SampleArrays(d) == UNION { [1..n -> SampleValues(d)] : n \in 0..MaxSamples }

\* packBits(samples, depth, normalise), then unpackBits of what it returned
\* with the same depth and normalise
PackUnpack(samples, depth, normalise) ==
    /\ \E packed \in { PackBits(samples, depth, normalise) } :
          call' = [fn |-> "packBits", samples |-> samples, depth |-> depth,
                   normalise |-> normalise, packed |-> packed,
                   unpacked |-> UnpackBits(packed, depth, normalise)]
    /\ UNCHANGED <<dictLength, dict, dataChunk, last>>

\* one call, with any samples
NextBits ==
    /\ call.fn = "none"
    /\ \E depth \in BitDepths : \E samples \in SampleArrays(depth) :
          \E normalise \in BOOLEAN : PackUnpack(samples, depth, normalise)

SpecBits == Init /\ [][NextBits]_vars

(***************************************************************************)
(* The format tests of PNGFormatterTo on any image object.                 *)
(***************************************************************************)
\* the longest raw buffer of the image objects given to the format tests
MaxBuffer == 5

\* the byte values of those buffers
BufferValues == {0, 7, 255}

\* the image objects: the fields raw, width and height are public and
\* independent of each other
AnyImages ==
    UNION { { [raw |-> raw, width |-> w, height |-> h] :
                raw \in [1..n -> BufferValues], w \in 0..MaxW, h \in 0..MaxH } :
            n \in 0..MaxBuffer }

\* the most colours a palette holds
PaletteLimit == 256

\* a row of n pixels of n different colours; the last pixel has the alpha
\* given, the others 255
ColourRow(n, lastAlpha) ==
    [raw |-> [k \in 1..(4 * n) |->
                 CASE k % 4 = 1 -> ((k - 1) \div 4) % 256
                   [] k % 4 = 2 -> ((k - 1) \div 4) \div 256
                   [] k % 4 = 3 -> 9
                   [] OTHER -> IF k = 4 * n THEN lastAlpha ELSE 255],
     width |-> n, height |-> 1]

\* images with one colour fewer than the palette limit, as many, and one
\* more, opaque or not
ManyColourImages ==
    { ColourRow(n, a) : n \in (PaletteLimit - 1)..(PaletteLimit + 1), a \in {254, 255} }

\* the four tests on one PNGFormatterTo object
CanBe(im) ==
    /\ call' = [fn |-> "canBe", im |-> im,
                canBeGrayScale |-> canBeGrayScale(im),
                canBeRGB |-> canBeRGB(im),
                canBeRGBA |-> canBeRGBA(im),
                canBeIndexed |-> canBeIndexed(im)]
    /\ UNCHANGED <<dictLength, dict, dataChunk, last>>

NextCanBe ==
    /\ call.fn = "none"
    /\ \E im \in AnyImages \cup ManyColourImages : CanBe(im)

SpecCanBe == Init /\ [][NextCanBe]_vars

(***************************************************************************)
(* One PNGFormatterTo object: its source image, whose pixels the caller    *)
(* may change, and its private _indexedPalette map, kept as the sequence   *)
(* of its keys in insertion order (the value of a key is its position).    *)
(***************************************************************************)
\* PNGFormatterTo.n2c; the bit operators take NaN as 0
n2c(n) ==
    IF n < 0 THEN << 0, 0, 0 >>
    ELSE << (n \div 65536) % 256, (n \div 256) % 256, n % 256 >>

\* the loop of canBeIndexed on an empty map: every key enters the map at its
\* first occurrence
PaletteKeys(raw) ==
    LET first == { i \in Every4th(raw, 0) :
                     \A j \in Every4th(raw, 0) : j < i => c2n(raw, j) /= c2n(raw, i) }
        rank(i) == Cardinality({ j \in first : j < i })
    IN  [r \in 1..Cardinality(first) |-> c2n(raw, CHOOSE i \in first : rank(i) = r - 1)]

\* canBeIndexed() on an object whose map holds the keys cache: the value
\* returned and the keys the map holds afterwards
CanBeIndexedOf(im, cache) ==
    IF ~canBeRGB(im) THEN [ok |-> FALSE, cache |-> cache]
    ELSE LET Built(keys) ==
                 IF Len(keys) > PaletteLimit THEN [ok |-> FALSE, cache |-> <<>>]
                 ELSE [ok |-> TRUE, cache |-> keys]
         IN  Built(PaletteKeys(im.raw))

\* _indexedPalette.get(key) ?? 0
IndexOfKey(cache, key) ==
    IF \E r \in 1..Len(cache) : cache[r] = key
    THEN (CHOOSE r \in 1..Len(cache) : cache[r] = key) - 1
    ELSE 0

\* the two arrays toIndexed builds from the map
IndexedWith(im, cache) ==
    [palette |-> [k \in 1..(3 * Len(cache)) |-> n2c(cache[((k - 1) \div 3) + 1])[((k - 1) % 3) + 1]],
     raw |-> [p \in 1..(Len(im.raw) \div 4) |->
                 IndexOfKey(cache, c2n(im.raw, (p - 1) * 4)) % 256]]

\* toIndexed() on an object whose map holds the keys cache: the two arrays
\* returned and the keys the map holds afterwards
ToIndexedOf(im, cache) ==
    LET Tested(c) ==
            IF ~c.ok THEN [palette |-> <<>>, raw |-> <<>>, cache |-> c.cache]
            ELSE [palette |-> IndexedWith(im, c.cache).palette,
                  raw |-> IndexedWith(im, c.cache).raw, cache |-> c.cache]
    IN  IF Len(cache) = 0 THEN Tested(CanBeIndexedOf(im, cache))
        ELSE [palette |-> IndexedWith(im, cache).palette,
              raw |-> IndexedWith(im, cache).raw, cache |-> cache]

\* PNGFormatterFrom.fromIndexed on an Indexed DecodeResult
fromIndexed(palette, raw) ==
    [k \in 1..(Len(raw) * 4) |->
        IF k % 4 /= 0 THEN palette[raw[((k - 1) \div 4) + 1] * 3 + ((k - 1) % 4) + 1]
        ELSE 255]

\* the pixels of the source images: two opaque colours and a translucent one
FormatterPixels == { << 1, 1, 1, 255 >>, << 2, 2, 2, 255 >>, << 1, 1, 1, 25 >> }

\* the pixel arrays of an image of n pixels: any of the pixels above in
\* every place; for the long rows, all different colours or all one colour
PixelArrays(n) ==
    IF n <= MaxW
    THEN { Flatten(ps) : ps \in [1..n -> FormatterPixels] }
    ELSE { ColourRow(n, 255).raw, ColourRow(n, 254).raw,
           [k \in 1..(4 * n) |-> IF k % 4 = 0 THEN 255 ELSE 3] }

\* the numbers of pixels of the source images
PixelCounts == (0..MaxW) \cup {PaletteLimit, PaletteLimit + 1}

\* new PNGFormatterTo(new PNG(raw, n, 1))
NewFormatter(n, raw) ==
    /\ call.fn = "none"
    /\ call' = [fn |-> "formatter", op |-> "new",
                im |-> [raw |-> raw, width |-> n, height |-> 1],
                cache |-> <<>>,
                ok |-> FALSE, palette |-> <<>>, raw |-> <<>>]
    /\ UNCHANGED <<dictLength, dict, dataChunk, last>>

\* the caller writes other pixels into src.raw
SetPixels(raw) ==
    /\ call.fn = "formatter"
    /\ raw /= call.im.raw
    /\ call' = [call EXCEPT !.op = "setPixels", !.im.raw = raw]
    /\ UNCHANGED <<dictLength, dict, dataChunk, last>>

\* canBeIndexed()
FormatterCanBeIndexed ==
    /\ call.fn = "formatter"
    /\ \E c \in { CanBeIndexedOf(call.im, call.cache) } :
          call' = [call EXCEPT !.op = "canBeIndexed", !.ok = c.ok, !.cache = c.cache]
    /\ UNCHANGED <<dictLength, dict, dataChunk, last>>

\* toIndexed()
FormatterToIndexed ==
    /\ call.fn = "formatter"
    /\ \E t \in { ToIndexedOf(call.im, call.cache) } :
          call' = [call EXCEPT !.op = "toIndexed", !.palette = t.palette, !.raw = t.raw,
                               !.cache = t.cache]
    /\ UNCHANGED <<dictLength, dict, dataChunk, last>>

NextFormatter ==
    \/ \E n \in PixelCounts : \E raw \in PixelArrays(n) : NewFormatter(n, raw)
    \/ call.fn = "formatter" /\ \E raw \in PixelArrays(call.im.width) : SetPixels(raw)
    \/ FormatterCanBeIndexed
    \/ FormatterToIndexed

SpecFormatter == Init /\ [][NextFormatter]_vars

(***************************************************************************)
(* PNGFormatterFrom.isCorrectFormat and the conversions between RGBA and   *)
(* the other colour formats (format.ts).                                   *)
(***************************************************************************)
\* formatChannelCounts.get
formatChannelCounts(f) ==
    CASE f = "Indexed" -> 1
      [] f = "GrayScale" -> 1
      [] f = "GrayScaleAlpha" -> 2
      [] f = "RGB" -> 3
      [] f = "RGBA" -> 4

\* the loop that finds the largest index of raw, starting from 0
MaxIndex(raw) ==
    IF \E i \in 1..Len(raw) : raw[i] > 0
    THEN CHOOSE m \in { raw[i] : i \in 1..Len(raw) } : \A i \in 1..Len(raw) : raw[i] <= m
    ELSE 0

\* PNGFormatterFrom.isCorrectFormat on the DecodeResult src
isCorrectFormat(src) ==
    IF src.colorFormat = "Indexed"
    THEN /\ src.width * src.height = Len(src.raw)
         /\ Len(src.palette) > MaxIndex(src.raw)
    ELSE src.width * src.height * formatChannelCounts(src.colorFormat) = Len(src.raw)

\* the sample values and palettes of the decode results that are tested
IndexValues == {0, 1, 2}
TestPalettes == { <<>>, << 1, 1, 1 >>, << 1, 1, 1, 2, 2, 2 >> }

\* the decode results: raw, width, height and palette are independent
DecodeResults ==
    UNION { { [colorFormat |-> f, width |-> w, height |-> h, raw |-> raw, palette |-> p] :
                f \in ColorFormatNames, w \in 0..MaxW, h \in 0..MaxH,
                raw \in [1..n -> IndexValues], p \in TestPalettes } :
            n \in 0..MaxW }

\* new PNGFormatterFrom(src).isCorrectFormat()
IsCorrectFormat(src) ==
    /\ call' = [fn |-> "isCorrectFormat", src |-> src, result |-> isCorrectFormat(src)]
    /\ UNCHANGED <<dictLength, dict, dataChunk, last>>

\* the pixels of the RGBA images that are converted
ConvertPixels ==
    { << 7, 7, 7, 255 >>, << 0, 7, 255, 255 >>, << 7, 7, 7, 0 >>,
      << 255, 0, 7, 7 >>, << 0, 0, 0, 255 >> }

\* the RGBA images of up to MaxW pixels
ConvertImages ==
    UNION { { [raw |-> Flatten(ps), width |-> n, height |-> 1] :
                ps \in [1..n -> ConvertPixels] } : n \in 0..MaxW }

ConvertFormats == {"GrayScale", "RGB", "GrayScaleAlpha"}

\* new PNGFormatterTo(im).toX()
ToFormat(f, im) ==
    CASE f = "GrayScale" -> toGrayScale(im)
      [] f = "RGB" -> toRGB(im)
      [] f = "GrayScaleAlpha" -> toGrayScaleAlpha(im)

\* new PNGFormatterFrom(src).fromX(), of which only src.raw is read
FromFormat(f, raw) ==
    CASE f = "GrayScale" -> fromGrayScale(raw)
      [] f = "RGB" -> fromRGB(raw)
      [] f = "GrayScaleAlpha" -> fromGrayScaleAlpha(raw)

\* toX on the image, then fromX on what toX returned; both write into a new
\* Uint8Array only, so the buffers they read are afterwards what they were
Convert(f, im) ==
    /\ \E mid \in { ToFormat(f, im) } :
          call' = [fn |-> "convert", colorFormat |-> f, im |-> im,
                   to |-> mid, from |-> FromFormat(f, mid),
                   imRawAfter |-> im.raw, toAfter |-> mid]
    /\ UNCHANGED <<dictLength, dict, dataChunk, last>>

NextConvert ==
    \/ call.fn = "none" /\ \E src \in DecodeResults : IsCorrectFormat(src)
    \/ call.fn = "none" /\ \E f \in ConvertFormats : \E im \in ConvertImages : Convert(f, im)

SpecConvert == Init /\ [][NextConvert]_vars

(***************************************************************************)
(* PNG.write (png.ts) with the PNGFormatter class of the same file.  Its   *)
(* isGrayScale, isRGB, isIndexed, isRGBA, toRGB and toIndexed are the code *)
(* of canBeGrayScale, canBeRGB, canBeIndexed, canBeRGBA, toRGB and         *)
(* toIndexed above; the methods below differ.                              *)
(***************************************************************************)
\* PNGFormatter.toGrayScale: newRaw[i] = raw[Math.floor(i / 4)]
PngToGrayScale(im) == [i \in 1..(Len(im.raw) \div 4) |-> im.raw[((i - 1) \div 4) + 1]]

\* PNGFormatter.isGrayScaleAlpha: isGrayScale() and not every alpha 255
isGrayScaleAlpha(im) ==
    /\ canBeGrayScale(im)
    /\ ~(\A i \in Every4th(im.raw, 3) : At(im.raw, i) = 255)

\* PNGFormatter.toGrayScaleAlpha: newRaw[i] = raw[i * 4], newRaw[i + 1] =
\* raw[i * 4 + 3] for even i; a byte read past the end is stored as 0
PngToGrayScaleAlpha(im) ==
    [k \in 1..(Len(im.raw) \div 2) |->
        IF (k - 1) % 2 = 0 THEN ByteOr0(im.raw, (k - 1) * 4)
                           ELSE ByteOr0(im.raw, (k - 2) * 4 + 3)]

\* PNG.paletteBitDepth
paletteBitDepth(len) ==
    IF len <= 2 THEN 1 ELSE IF len <= 4 THEN 2 ELSE IF len <= 16 THEN 4 ELSE 8

\* "Pack bits if needed": every output byte is the sum, kept to 8 bits, of
\* (this.raw[i * 8 / bitDepth + j] >> (8 - bitDepth)) << (valuesPerByte - j - 1)
WritePacked(thisRaw, outRaw, bitDepth) ==
    IF bitDepth >= 8 THEN outRaw
    ELSE LET valuesPerByte == 8 \div bitDepth
             term(i, j) == (ByteOr0(thisRaw, i * valuesPerByte + j) \div (2 ^ (8 - bitDepth)))
                           * (2 ^ (valuesPerByte - j - 1))
         IN  [b \in 1..((Len(outRaw) * bitDepth) \div 8) |->
                 SumOf([j \in 1..valuesPerByte |-> term(b - 1, j - 1)]) % 256]

\* the caller gave no colorFormat
NoFormat == "undefined"

\* lines 332 to 350: a forced format the image cannot take is dropped
ForcedFormat(im, colorFormat) ==
    CASE colorFormat = "GrayScale" -> IF canBeGrayScale(im) THEN colorFormat ELSE NoFormat
      [] colorFormat = "RGB" -> IF canBeRGB(im) THEN colorFormat ELSE NoFormat
      [] colorFormat = "Indexed" -> IF canBeIndexed(im) THEN colorFormat ELSE NoFormat
      [] colorFormat = "GrayScaleAlpha" -> IF isGrayScaleAlpha(im) THEN colorFormat ELSE NoFormat
      [] colorFormat = "RGBA" -> IF canBeRGBA(im) THEN colorFormat ELSE NoFormat
      [] OTHER -> NoFormat

\* [plte, outRaw] = formatter.toIndexed() right after isIndexed() on the same
\* pixels: the map holds the colours of the image, or is empty
WriteToIndexed(im) ==
    IF canBeIndexed(im) THEN IndexedWith(im, PaletteKeys(im.raw))
    ELSE [palette |-> <<>>, raw |-> <<>>]

\* lines 352 to 379: the automatic choice of the format
AutoFormat(im, grayScaleBitDepth) ==
    LET indexed == canBeIndexed(im)
        plte == IF indexed THEN WriteToIndexed(im).palette ELSE <<>>
        outRaw == IF indexed THEN WriteToIndexed(im).raw ELSE <<>>
        first == IF indexed THEN "Indexed" ELSE NoFormat
        chosen ==
            IF canBeGrayScale(im)
            THEN IF Len(plte) > 0
                 THEN IF paletteBitDepth(Len(plte)) >= grayScaleBitDepth THEN "GrayScale" ELSE first
                 ELSE "GrayScale"
            ELSE IF isGrayScaleAlpha(im) /\ Len(plte) = 0 THEN "GrayScaleAlpha"
            ELSE IF canBeRGB(im) /\ Len(plte) = 0 THEN "RGB"
            ELSE IF Len(plte) = 0 THEN "RGBA"
            ELSE first
    IN  [colorFormat |-> chosen, plte |-> plte, outRaw |-> outRaw]

\* lines 381 to 410: the bit depth and the converted pixels
Formatted(im, c, grayScaleBitDepth) ==
    IF c.colorFormat = "Indexed" /\ Len(c.plte) > 0
    THEN [c EXCEPT !.colorFormat = c.colorFormat] @@ [bitDepth |-> paletteBitDepth(Len(c.plte))]
    ELSE CASE c.colorFormat = "GrayScale" ->
                [colorFormat |-> c.colorFormat, plte |-> c.plte,
                 outRaw |-> PngToGrayScale(im), bitDepth |-> grayScaleBitDepth]
           [] c.colorFormat = "GrayScaleAlpha" ->
                [colorFormat |-> c.colorFormat, plte |-> c.plte,
                 outRaw |-> PngToGrayScaleAlpha(im), bitDepth |-> 8]
           [] c.colorFormat = "Indexed" ->
                [colorFormat |-> c.colorFormat, plte |-> WriteToIndexed(im).palette,
                 outRaw |-> WriteToIndexed(im).raw,
                 bitDepth |-> paletteBitDepth(Len(WriteToIndexed(im).palette))]
           [] c.colorFormat = "RGB" ->
                [colorFormat |-> c.colorFormat, plte |-> c.plte,
                 outRaw |-> toRGB(im), bitDepth |-> 8]
           [] OTHER ->
                [colorFormat |-> c.colorFormat, plte |-> c.plte,
                 outRaw |-> c.outRaw, bitDepth |-> 8]

\* PNG.write(path, colorFormat, grayScaleBitDepth) on the image im: the
\* format and bit depth chosen, the bytes given to encode and the file;
\* threw when write or encode raises an error, and then no file is written
WriteOf(im, colorFormat, grayScaleBitDepth) ==
    LET Failed == [threw |-> TRUE, colorFormat |-> NoFormat, bitDepth |-> 8,
                   plte |-> <<>>, outRaw |-> <<>>, file |-> <<>>]
        Encoded(f, packed) ==
            LET bin == encode([raw |-> packed, width |-> im.width, height |-> im.height,
                               colorFormat |-> f.colorFormat,
                               bitDepth |-> IF f.colorFormat \in {"Indexed", "GrayScale"}
                                            THEN f.bitDepth ELSE 8,
                               hasPalette |-> f.colorFormat = "Indexed",
                               palette |-> f.plte])
            IN  IF bin.threw
                THEN [Failed EXCEPT !.colorFormat = f.colorFormat, !.bitDepth = f.bitDepth]
                ELSE [threw |-> FALSE, colorFormat |-> f.colorFormat, bitDepth |-> f.bitDepth,
                      plte |-> f.plte, outRaw |-> packed, file |-> bin.bytes]
        Packed(f) == Encoded(f, WritePacked(im.raw, f.outRaw, f.bitDepth))
        Chosen(forced) ==
            IF forced = NoFormat THEN AutoFormat(im, grayScaleBitDepth)
            ELSE [colorFormat |-> forced, plte |-> <<>>, outRaw |-> <<>>]
    IN  IF ~canBeRGBA(im) THEN Failed
        ELSE Packed(Formatted(im, Chosen(ForcedFormat(im, colorFormat)), grayScaleBitDepth))

\* the images written: up to MaxW pixels of the colours below in any order
WritePixels ==
    { << 7, 7, 7, 255 >>, << 0, 0, 0, 255 >>, << 0, 7, 255, 255 >>,
      << 7, 7, 7, 0 >>, << 255, 0, 7, 7 >> }

\* a row of n opaque gray pixels of n different levels
GrayRow(n) ==
    [raw |-> [k \in 1..(4 * n) |-> IF k % 4 = 0 THEN 255 ELSE (k - 1) \div 4],
     width |-> n, height |-> 1]

\* the numbers of colours at which paletteBitDepth changes, in colours and
\* in palette bytes
PaletteSteps == {2, 3, 4, 5, 6, 16, 17}

WriteImages ==
    UNION { { [raw |-> Flatten(ps), width |-> n, height |-> 1] :
                ps \in [1..n -> WritePixels] } : n \in 0..MaxW }
    \cup { [raw |-> Flatten(ps), width |-> MaxW, height |-> 1] :
                ps \in [1..1 -> WritePixels] }
    \cup { GrayRow(n) : n \in PaletteSteps }
    \cup { [raw |-> ColourRow(n, a).raw, width |-> n, height |-> 1] :
             n \in PaletteSteps, a \in {254, 255} }

\* await image.write(path, colorFormat, grayScaleBitDepth)
Write(im, colorFormat, grayScaleBitDepth) ==
    /\ \E w \in { WriteOf(im, colorFormat, grayScaleBitDepth) } :
          call' = [fn |-> "write", im |-> im, forced |-> colorFormat,
                   grayScaleBitDepth |-> grayScaleBitDepth, out |-> w]
    /\ UNCHANGED <<dictLength, dict, dataChunk, last>>

NextWrite ==
    /\ call.fn = "none"
    /\ \E im \in WriteImages : \E f \in ColorFormatNames \cup {NoFormat} :
          \E d \in BitDepths : Write(im, f, d)

SpecWrite == Init /\ [][NextWrite]_vars

(***************************************************************************)
(* writeEntry at the bit depths 1, 2, 4 and 8.  Below depth 8 the bytes    *)
(* are packed as the body of packBits in format.ts packs them, at the      *)
(* depth writeEntry asks for and with normalise left at its default; the   *)
(* width that writeEntry also passes does not enter that body.             *)
(***************************************************************************)
packBitsAt(bytes, width, desiredBitDepth) ==
    IF desiredBitDepth < 8 THEN PackBits(bytes, desiredBitDepth, TRUE)
    ELSE packBits(bytes, width, desiredBitDepth)

WriteEntryAt(n, im, bd) ==
    \E t \in { WriteEntryWith(T, n, im, bd, packBitsAt(WriteRaw(im), im.width, bd)) } :
        /\ WithinBounds(t)
        /\ Become(t)
        /\ last' = [NoCall EXCEPT !.op = "writeEntry", !.name = n]

\* writeEntry under names the dictionary does not hold
NextDepths ==
    \E n \in Names, im \in Images, bd \in BitDepths : ~Has(dict, n) /\ WriteEntryAt(n, im, bd)

SpecDepths == Init /\ [][NextDepths]_vars

(***************************************************************************)
(* TIC.from(t.encode()) on containers whose first entry has a name of 255, *)
(* 256 or 257 bytes.                                                       *)
(***************************************************************************)
\* names of "a"s: one byte shorter than DICT_NAME_MAX_LENGTH, and as long
FullName == [i \in 1..DICT_NAME_MAX_LENGTH |-> 97]
NearFullName == [i \in 1..(DICT_NAME_MAX_LENGTH - 1) |-> 97]

\* GrayScale entries under the three long names
NamedEntries ==
    { [key |-> k, name |-> k, nameLength |-> Len(TextEncode(k)),
       byteOffset |-> o, width |-> w, height |-> 1,
       colorFormat |-> "GrayScale", bitDepth |-> 8] :
         k \in {NearFullName, FullName, LongName}, o \in {0, 1}, w \in 0..MaxW }

\* t.encode(), which validates t, and TIC.from of the bytes.  When from
\* meets a 32-bit field of 2^16 or more (wide), read holds the entries it
\* read before that field.
EncodeThenFrom ==
    /\ last.op = "constructor"
    /\ \E e \in { EncodeOf(T) } :
          /\ ~e.threw
          /\ \E r \in { FromOf(e.bytes) } :
                /\ dictLength' = e.tic.dictLength
                /\ dict' = e.tic.dict
                /\ dataChunk' = e.tic.dataChunk
                /\ last' = [NoCall EXCEPT !.op = "encode"]
                /\ call' = [fn |-> "encodeThenFrom", bytes |-> e.bytes, read |-> r.tic,
                            oob |-> r.oob, wide |-> r.wide]

\* a container whose dictionary starts with a long-named entry, alone or
\* followed by an entry named "a", every entry within dataChunk, is encoded
\* and read back
NextNames ==
    \/ /\ last.op = "new"
       /\ \E d \in DictsOf(NamedEntries \cup { e \in ShortEntries : e.key = NameA }),
             n \in 0..MaxData :
             /\ Len(d) >= 1
             /\ d[1].key \in {NearFullName, FullName, LongName}
             /\ \A i \in 2..Len(d) : d[i].key = NameA
             /\ \A i \in 1..Len(d) :
                   d[i].byteOffset < n /\ d[i].byteOffset + entryDataLength(d[i]) <= n
             /\ New(DictSum(d), d, DataOfLen(n))
    \/ EncodeThenFrom

SpecNames == Init /\ [][NextNames]_vars

(***************************************************************************)
(* decode of files that carry a gAMA chunk.                                *)
(***************************************************************************)
\* the values of the four data bytes of the gAMA chunk
GammaBytes == {0, 1, 127, 128, 255}

\* a file with a gAMA chunk between IHDR and the image data
GammaFile(o, gammaData) ==
    PNG_SIGNATURE
    \o writeIHDR(o.width, o.height, o.bitDepth, o.colorFormat)
    \o writeChunk(gAMA, gammaData)
    \o (IF o.colorFormat = "Indexed" THEN writeChunk(PLTE, o.palette) ELSE <<>>)
    \o writeChunk(IDAT,
                  deflate(FilterRows(o.raw, o.height,
                                     CeilDiv(o.width * o.bitDepth
                                             * colorFormatChannels(o.colorFormat), 8),
                                     CeilDiv(o.bitDepth
                                             * colorFormatChannels(o.colorFormat), 8),
                                     [y \in 1..o.height |-> 0])))
    \o writeChunk(IEND, <<>>)

\* the images of those files: one row of one pixel, in every format at bit
\* depth 8
GammaOpts == { o \in LegalOpts : o.width = 1 /\ o.height = 1 /\ o.bitDepth = 8 }

\* decode(image) of such a file
DecodeGamma(o, gammaData) ==
    /\ \E image \in { GammaFile(o, gammaData) } :
          call' = [fn |-> "decodeGamma", opts |-> o, gammaData |-> gammaData,
                   image |-> image, res |-> decode(image)]
    /\ UNCHANGED <<dictLength, dict, dataChunk, last>>

NextGamma ==
    /\ call.fn = "none"
    /\ \E o \in GammaOpts : \E gammaData \in [1..4 -> GammaBytes] : DecodeGamma(o, gammaData)

SpecGamma == Init /\ [][NextGamma]_vars

(***************************************************************************)
(* PNGCache (cache.ts): one cache object over one file.  this.tic is the   *)
(* container of the model; call holds the file and the file writes that    *)
(* have been started.  Deno.writeFile opens the file, which empties it,    *)
(* and then writes its bytes from the start of the file; the writes of two *)
(* calls that are both in flight take their steps in any order.            *)
(***************************************************************************)
\* the bytes of the file after bytes were written at its start
Overwritten(file, bytes) ==
    [i \in 1..Max(Len(file), Len(bytes)) |-> IF i <= Len(bytes) THEN bytes[i] ELSE file[i]]

\* the images given to write: at least one pixel
CacheImages == { im \in Images : im.width >= 1 }

\* write(entryName, im) up to its await: writeEntry and encode on this.tic,
\* and Deno.writeFile is started with the bytes
StartWrite(entryName, im, pc) ==
    \E e \in { EncodeOf(WriteEntryOf(T, entryName, im, 8)) } :
        /\ ~e.threw
        /\ dictLength' = e.tic.dictLength
        /\ dict' = e.tic.dict
        /\ dataChunk' = e.tic.dataChunk
        /\ last' = [NoCall EXCEPT !.op = "encode"]
        /\ call' = IF pc = "first"
                   THEN [fn |-> "cache", pc |-> pc, names |-> << entryName >>, ims |-> << im >>,
                         ops |-> << [state |-> "started", bytes |-> e.bytes] >>,
                         file |-> <<>>, readName |-> <<>>, result |-> EmptyDecodeResult]
                   ELSE [call EXCEPT !.pc = pc, !.names = Append(@, entryName),
                                     !.ims = Append(@, im),
                                     !.ops = Append(@, [state |-> "started", bytes |-> e.bytes])]

\* cache.write(n, im) on a new cache whose file does not exist
FirstWrite(entryName, im) ==
    /\ call.fn = "none"
    /\ last.op = "new"
    /\ StartWrite(entryName, im, "first")

\* cache.write(n, im) under another name, the first call not awaited
SecondWrite(entryName, im) ==
    /\ call.fn = "cache"
    /\ call.pc = "first"
    /\ entryName /= call.names[1]
    /\ StartWrite(entryName, im, "second")

\* the file write of call i opens the file
OpenFile(i) ==
    /\ call.fn = "cache"
    /\ i \in 1..Len(call.ops)
    /\ call.ops[i].state = "started"
    /\ call' = [call EXCEPT !.ops[i].state = "open", !.file = <<>>]
    /\ UNCHANGED <<dictLength, dict, dataChunk, last>>

\* the file write of call i writes its bytes and completes
WriteFile(i) ==
    /\ call.fn = "cache"
    /\ i \in 1..Len(call.ops)
    /\ call.ops[i].state = "open"
    /\ call' = [call EXCEPT !.ops[i].state = "done",
                            !.file = Overwritten(call.file, call.ops[i].bytes)]
    /\ UNCHANGED <<dictLength, dict, dataChunk, last>>

\* await cache.read(entryName) once both writes have completed: readFile
\* replaces this.tic by TIC.from of the file, and readEntry reads it
CacheRead(entryName) ==
    /\ call.fn = "cache"
    /\ call.pc = "second"
    /\ \A i \in 1..Len(call.ops) : call.ops[i].state = "done"
    /\ \E r \in { FromOf(call.file) } :
          /\ ~r.wide
          /\ dictLength' = r.tic.dictLength
          /\ dict' = r.tic.dict
          /\ dataChunk' = r.tic.dataChunk
          /\ last' = [NoCall EXCEPT !.op = "readEntry", !.name = entryName,
                                    !.found = Has(r.tic.dict, entryName)]
          /\ call' = [call EXCEPT !.pc = "read", !.readName = entryName,
                                  !.result = ReadEntryOf(r.tic, entryName)]

NextCache ==
    \/ \E n \in Names, im \in CacheImages : FirstWrite(n, im)
    \/ \E n \in Names, im \in CacheImages : SecondWrite(n, im)
    \/ \E i \in 1..2 : OpenFile(i)
    \/ \E i \in 1..2 : WriteFile(i)
    \/ \E n \in Names : CacheRead(n)

SpecCache == Init /\ [][NextCache]_vars

(***************************************************************************)
(* Properties.                                                             *)
(***************************************************************************)
\* the byte positions [byteOffset, byteOffset + spanLength) of an entry
SpanOf(e) == { b \in e.byteOffset..(e.byteOffset + entryDataLength(e) - 1) : TRUE }

\* the spans of the entries are pairwise disjoint and cover dataChunk exactly
Tiled(t) ==
    /\ \A i, j \in 1..Len(t.dict) :
          i /= j => SpanOf(t.dict[i]) \cap SpanOf(t.dict[j]) = {}
    /\ UNION { SpanOf(t.dict[i]) : i \in 1..Len(t.dict) } = 0..(Len(t.dataChunk) - 1)

\* C1: after any sequence of writeEntry and removeEntry calls on a container
\* that starts empty, the spans of the entries are pairwise disjoint and
\* cover dataChunk from 0 to its length without a gap.
C1_SpansTileDataChunk == Tiled(T)

\* C2: after any sequence of writeEntry and removeEntry calls on a container
\* that starts empty, dictLength is the sum of 14 + nameLength over the
\* entries.
C2_DictLengthIsEntrySum ==
    dictLength = DictSum(dict)

\* C8: for a name the dictionary does not hold, readEntry returns the empty
\* RGBA 0 x 0 result of bit depth 8, and removeEntry and readEntry leave
\* dictLength, the dictionary and dataChunk as they are and raise nothing.
C8_UnknownNameIsNoOp ==
    [][\A n \in AllNames :
          ~(\E i \in 1..Len(dict) : dict[i].key = n) =>
              /\ ReadEntryOf(T, n) = [raw |-> <<>>, width |-> 0, height |-> 0,
                                      colorFormat |-> "RGBA", bitDepth |-> 8]
              /\ (RemoveEntry(n) \/ ReadEntry(n)) =>
                    /\ UNCHANGED <<dictLength, dict, dataChunk>>
                    /\ ~last'.threw]_vars

C8_Witness ==
    /\ last.op = "removeEntry"
    /\ ~last.found
    /\ dict /= <<>>
    /\ dataChunk /= <<>>

\* the RGBA bytes that fromX gives for the raw bytes of a TIC entry
Expand(colorFormat, raw) ==
    CASE colorFormat = "GrayScale" -> fromGrayScale(raw)
      [] colorFormat = "GrayScaleAlpha" -> fromGrayScaleAlpha(raw)
      [] colorFormat = "RGB" -> fromRGB(raw)
      [] colorFormat = "RGBA" -> raw

\* the first format of the chain that the image can be
FirstFormat(im) ==
    CHOOSE f \in TicColorFormatNames :
        /\ CASE f = "GrayScale" -> canBeGrayScale(im)
             [] f = "GrayScaleAlpha" -> canBeGrayScaleAlpha(im)
             [] f = "RGB" -> canBeRGB(im)
             [] f = "RGBA" -> TRUE
        /\ \A g \in TicColorFormatNames :
              ticChainRank(g) < ticChainRank(f) =>
                  ~ CASE g = "GrayScale" -> canBeGrayScale(im)
                      [] g = "GrayScaleAlpha" -> canBeGrayScaleAlpha(im)
                      [] g = "RGB" -> canBeRGB(im)
                      [] g = "RGBA" -> TRUE

RoundTrip(t) == FromOf(EncodeOf(t).bytes).tic

\* C4: for every container reached by writeEntry calls at bit
\* depth 8 under fresh names of at most 255 bytes and by removeEntry calls,
\* TIC.from(c.encode()) has the dictLength, the entries and the dataChunk of
\* the container.
C4_RoundTripIsIdentity ==
    /\ ~EncodeOf(T).threw
    /\ RoundTrip(T) = T

EntryStart(d, i) == 4 + DictSum(SubSeq(d, 1, i - 1))

C5_ValidateStoresDictLength ==
    last.op = "validate" => dictLength = DictSum(dict)

\* C6: after validate() returns, every remaining entry has
\* 0 <= byteOffset < dataChunk.length and
\* byteOffset + spanLength <= dataChunk.length.
C6_ValidateLeavesEntriesInside ==
    last.op = "validate" =>
        \A i \in 1..Len(dict) :
            /\ 0 <= dict[i].byteOffset
            /\ dict[i].byteOffset < Len(dataChunk)
            /\ dict[i].byteOffset + entryDataLength(dict[i]) <= Len(dataChunk)

\* C7: validate() makes at most two passes over the dictionary, and the
\* second only when the first pass removed at least one entry.
C7_RerunOnlyAfterRemoval ==
    last.op = "validate" =>
        /\ last.passes <= 2
        /\ last.passes = 2 => last.removed >= 1

C12_NoTicCallThrows ==
    ~last.threw

\* the arguments encode accepts under the legality table: a legal bit
\* depth, a raw buffer of height * ceil(width * bitDepth * channels / 8)
\* bytes, and a palette when the format is Indexed
LegalEncodeOpts(o) ==
    /\ o.bitDepth \in ColorFormats(o.colorFormat)
    /\ Len(o.raw) = RawLength(o.width, o.height, o.colorFormat, o.bitDepth)
    /\ o.colorFormat = "Indexed" => o.hasPalette

\* C13: PNG round trip: for every format and bit depth of the legality
\* table, every width and height and every raw buffer of the expected length
\* (with a palette when Indexed), encode returns a file, and decode of that
\* file returns the same raw bytes, width, height, colorFormat and bitDepth,
\* and the same palette when Indexed.
C13_PngRoundTrip ==
    /\ (call.fn = "encode" /\ LegalEncodeOpts(call.opts)) => ~call.out.threw
    /\ (call.fn = "decode" /\ call.encoded /\ LegalEncodeOpts(call.opts)) =>
          /\ ~call.res.threw
          /\ call.res.raw = call.opts.raw
          /\ call.res.width = call.opts.width
          /\ call.res.height = call.opts.height
          /\ call.res.colorFormat = call.opts.colorFormat
          /\ call.res.bitDepth = call.opts.bitDepth
          /\ call.opts.colorFormat = "Indexed" =>
                call.res.hasPalette /\ call.res.palette = call.opts.palette

C13_Witness ==
    /\ call.fn = "decode"
    /\ call.encoded
    /\ call.opts.colorFormat = "Indexed"
    /\ call.opts.bitDepth = 2
    /\ call.opts.width = 2
    /\ call.opts.height = 2
    /\ Len(call.opts.palette) = 6
    /\ Len(call.res.raw) = 2
    /\ call.res.raw = call.opts.raw
    /\ call.res.palette = call.opts.palette

\* C14: decode raises an error and returns no DecodeResult when the first 8
\* bytes of the image are not the PNG signature, when the compression,
\* filter-method or interlace byte of IHDR is not 0, or when the inflated
\* IDAT data is one byte longer or shorter than
\* height * (1 + ceil(width * bitDepth * channels / 8)).
C14_DecodeRejectsDamagedFile ==
    (/\ call.fn = "decode"
     /\ \/ Subarray(call.image, 0, 8) /= PNG_SIGNATURE
        \/ call.methods /= << 0, 0, 0 >>
        \/ call.delta /= 0) =>
        call.res.threw

C14_Witness ==
    /\ call.fn = "decode"
    /\ Subarray(call.image, 0, 8) = PNG_SIGNATURE
    /\ call.methods = << 0, 0, 1 >>
    /\ call.opts.colorFormat = "RGB"
    /\ call.opts.width = 2
    /\ call.opts.height = 2
    /\ call.res.threw

\* C15: decode raises an error whenever the filter-type byte in front of some
\* row of the inflated data is greater than 4, for every width and height,
\* rows of zero bytes included.
C15_BadFilterByteThrows ==
    (/\ call.fn = "decode"
     /\ ~call.encoded
     /\ \E y \in 1..Len(call.filters) : call.filters[y] > 4) =>
        call.res.threw

\* C16: encode raises an error and returns no bytes when bitDepth < 8 with a
\* colorFormat other than GrayScale or Indexed, when raw.length differs from
\* ceil(width * channels * bitDepth / 8) * height, or when colorFormat is
\* Indexed and no palette is given; for every other input with bitDepth in
\* {1, 2, 4, 8} it returns bytes.
C16_EncodeErrors ==
    call.fn = "encode" =>
        /\ call.out.threw <=>
              \/ call.opts.bitDepth < 8 /\ call.opts.colorFormat \notin {"GrayScale", "Indexed"}
              \/ Len(call.opts.raw) /=
                    CeilDiv(call.opts.width * colorFormatChannels(call.opts.colorFormat)
                            * call.opts.bitDepth, 8) * call.opts.height
              \/ call.opts.colorFormat = "Indexed" /\ ~call.opts.hasPalette
        /\ call.out.threw => call.out.bytes = <<>>
        /\ ~call.out.threw => Subarray(call.out.bytes, 0, 8) = PNG_SIGNATURE

C16_Witness ==
    /\ call.fn = "encode"
    /\ call.opts.colorFormat = "Indexed"
    /\ call.opts.bitDepth = 4
    /\ ~call.opts.hasPalette
    /\ call.opts.width = 2
    /\ call.opts.height = 2
    /\ Len(call.opts.raw) = 2
    /\ call.out.threw

\* C19: filter inverse: for every image of scanlines, every stride bpp and
\* every filter type 0 to 4 chosen per row, filtering each row forward with
\* the PNG filter and then running the reconstruction of decode recovers the
\* original scanline bytes.
C19_FilterInverse ==
    (/\ call.fn = "decode"
     /\ ~call.encoded
     /\ Subarray(call.image, 0, 8) = PNG_SIGNATURE
     /\ call.methods = << 0, 0, 0 >>
     /\ call.delta = 0
     /\ \A y \in 1..Len(call.filters) : call.filters[y] <= 4) =>
        /\ ~call.res.threw
        /\ call.res.raw = call.opts.raw

C19_Witness ==
    /\ call.fn = "decode"
    /\ ~call.encoded
    /\ call.filters = << 3, 4 >>
    /\ call.opts.colorFormat = "RGB"
    /\ call.opts.width = 2
    /\ Len(call.opts.raw) = 12
    /\ call.res.raw = call.opts.raw
    /\ inflate(ReadChunks(call.image, 8, NoChunks).idatChunks[1]).bytes
          /= << 3 >> \o SubSeq(call.opts.raw, 1, 6) \o << 4 >> \o SubSeq(call.opts.raw, 7, 12)

\* C17: bit pack/unpack inverse: for every depth in {1, 2, 4, 8} and every
\* sample array, of any length, with all values in [0, 2^depth),
\* unpackBits(packBits(samples, depth, false), depth, false) equals samples.
C17_PackUnpackInverse ==
    (call.fn = "packBits" /\ ~call.normalise) => call.unpacked = call.samples

\* C18: for depth d in {1, 2, 4} packBits puts 8/d samples in each output
\* byte with the first sample in the most significant bits, and packing the
\* samples v * 2^(8-d) with normalise = true gives the same bytes as packing
\* the samples v (each v in [0, 2^d)) with normalise = false.
C18_PackMostSignificantFirst ==
    (call.fn = "packBits" /\ ~call.normalise /\ call.depth < 8) =>
        /\ Len(call.packed) >= Len(call.samples) \div (8 \div call.depth)
        /\ \A k \in 1..Len(call.packed) :
              call.packed[k] =
                  SumOf([j \in 1..(8 \div call.depth) |->
                            call.samples[(k - 1) * (8 \div call.depth) + j]
                            * 2 ^ (8 - j * call.depth)])
        /\ PackBits([i \in 1..Len(call.samples) |-> call.samples[i] * 2 ^ (8 - call.depth)],
                    call.depth, TRUE) = call.packed

C18_Witness ==
    /\ call.fn = "packBits"
    /\ ~call.normalise
    /\ call.depth = 1
    /\ call.samples = << 1, 0, 1, 0, 0, 1, 0, 1 >>
    /\ call.packed = << 165 >>
    /\ PackBits(<< 128, 0, 128, 0, 0, 128, 0, 128 >>, 1, TRUE) = << 165 >>

\* C20: for every image object (any raw buffer, width and height):
\* canBeGrayScale implies canBeRGB, canBeRGB implies canBeRGBA, and
\* canBeIndexed implies canBeRGB.
C20_CanBeChain ==
    call.fn = "canBe" =>
        /\ call.canBeGrayScale => call.canBeRGB
        /\ call.canBeRGB => call.canBeRGBA
        /\ call.canBeIndexed => call.canBeRGB

\* C21: for an RGBA image (raw.length = width * height * 4) canBeIndexed
\* returns true exactly when every pixel has alpha 255 and the image has at
\* most 256 distinct RGB triples; an opaque image of 256 colours is
\* indexable, one of 257 is not.
C21_IndexableIffOpaqueAndFewColours ==
    (call.fn = "canBe" /\ Len(call.im.raw) = call.im.width * call.im.height * 4) =>
        (call.canBeIndexed <=>
            /\ \A p \in 1..(call.im.width * call.im.height) : call.im.raw[4 * p] = 255
            /\ Cardinality({ << call.im.raw[4 * p - 3], call.im.raw[4 * p - 2],
                                call.im.raw[4 * p - 1] >> :
                             p \in 1..(call.im.width * call.im.height) }) <= 256)

C21_Witness ==
    /\ call.fn = "canBe"
    /\ call.im.width = 256
    /\ call.im.height = 1
    /\ Len(call.im.raw) = 1024
    /\ Cardinality({ SubSeq(call.im.raw, 4 * p - 3, 4 * p - 1) : p \in 1..256 }) = 256
    /\ call.canBeRGB
    /\ call.canBeIndexed

\* the RGB triple of pixel p (from 1) of a pixel array
TripleAt(raw, p) == SubSeq(raw, 4 * p - 3, 4 * p - 1)

\* the first pixel that has the colour of pixel p
FirstWith(raw, p) == CHOOSE q \in 1..p :
    TripleAt(raw, q) = TripleAt(raw, p) /\ \A r \in 1..(q - 1) : TripleAt(raw, r) /= TripleAt(raw, p)

\* C22: for an indexable image, toIndexed returns a palette that lists each
\* distinct RGB colour exactly once in order of first occurrence, and one
\* index per pixel such that the palette triple at that index is the RGB of
\* the pixel; fromIndexed of that palette and index array gives back the
\* RGBA buffer.
C22_ToIndexedListsColoursInOrder ==
    (call.fn = "formatter" /\ call.op = "toIndexed" /\ canBeIndexed(call.im)) =>
        /\ Len(call.raw) = call.im.width * call.im.height
        /\ Len(call.palette) =
              3 * Cardinality({ TripleAt(call.im.raw, p) : p \in 1..Len(call.raw) })
        /\ \A p \in 1..Len(call.raw) :
              /\ SubSeq(call.palette, 3 * call.raw[p] + 1, 3 * call.raw[p] + 3)
                    = TripleAt(call.im.raw, p)
              /\ call.raw[p] =
                    Cardinality({ TripleAt(call.im.raw, q) :
                                  q \in 1..(FirstWith(call.im.raw, p) - 1) })
        /\ fromIndexed(call.palette, call.raw) = call.im.raw

\* C23: on one PNGFormatterTo object, after any canBeIndexed and toIndexed
\* calls and changes of the pixels, toIndexed returns two empty arrays when
\* the image at the time of the call is not indexable, and never a palette
\* made from earlier pixels: every palette colour is a colour of the image.
C23_ToIndexedUsesCurrentPixels ==
    (call.fn = "formatter" /\ call.op = "toIndexed") =>
        /\ ~canBeIndexed(call.im) => call.palette = <<>> /\ call.raw = <<>>
        /\ \A c \in 1..(Len(call.palette) \div 3) :
              \E p \in 1..(Len(call.im.raw) \div 4) :
                  SubSeq(call.palette, 3 * c - 2, 3 * c) = TripleAt(call.im.raw, p)

\* C24: for an Indexed DecodeResult, isCorrectFormat returns true only if
\* raw.length equals width*height and every index in raw is strictly less
\* than the number of palette colours, palette.length/3.
C24_IndexedCorrectOnlyWithinPalette ==
    (call.fn = "isCorrectFormat" /\ call.src.colorFormat = "Indexed" /\ call.result)
        => /\ Len(call.src.raw) = call.src.width * call.src.height
           /\ \A i \in 1..Len(call.src.raw) : 3 * call.src.raw[i] < Len(call.src.palette)

\* the image bytes with every fourth byte replaced by 255
OpaqueOf(raw) == [k \in 1..Len(raw) |-> IF k % 4 = 0 THEN 255 ELSE raw[k]]

CanBeFormat(f, im) ==
    CASE f = "GrayScale" -> canBeGrayScale(im)
      [] f = "RGB" -> canBeRGB(im)
      [] f = "GrayScaleAlpha" -> canBeGrayScaleAlpha(im)

\* C25: for X in {GrayScale, RGB, GrayScaleAlpha} and every RGBA image for
\* which canBeX holds, fromX applied to toX(image) returns exactly the
\* image's RGBA bytes, with alpha filled as 255 for GrayScale and RGB, and
\* neither conversion changes the buffer it reads.
C25_FromToIsIdentity ==
    (call.fn = "convert" /\ canBeRGBA(call.im) /\ CanBeFormat(call.colorFormat, call.im))
        => /\ call.from = call.im.raw
           /\ call.colorFormat \in {"GrayScale", "RGB"} => call.from = OpaqueOf(call.im.raw)
           /\ call.imRawAfter = call.im.raw
           /\ call.toAfter = call.to

C25_Witness ==
    /\ call.fn = "convert"
    /\ call.colorFormat = "GrayScaleAlpha"
    /\ canBeRGBA(call.im) /\ canBeGrayScaleAlpha(call.im)
    /\ call.im.raw = << 7, 7, 7, 0, 0, 0, 0, 255 >>
    /\ call.to = << 7, 0, 0, 255 >>
    /\ call.from = call.im.raw

\* the number of distinct colours of the image
ColourCount(im) == Cardinality({ c2n(im.raw, i) : i \in Every4th(im.raw, 0) })

\* the smallest d in {1, 2, 4, 8} with n <= 2^d
MinimalDepth(n) == CHOOSE d \in BitDepths : n <= 2 ^ d /\ \A e \in BitDepths : n <= 2 ^ e => d <= e

\* the first format, in the order GrayScale, GrayScaleAlpha, RGB, RGBA, that
\* the image can take
PreferredFormat(im) ==
    IF canBeGrayScale(im) THEN "GrayScale"
    ELSE IF canBeGrayScaleAlpha(im) THEN "GrayScaleAlpha"
    ELSE IF canBeRGB(im) THEN "RGB"
    ELSE "RGBA"

\* C26: PNG.write with no forced format writes an indexable image as
\* GrayScale only when it is grayscale and the requested grayscale bit depth
\* is at most the minimal palette bit depth (the smallest d in {1,2,4,8} with
\* number of palette colours <= 2^d), otherwise as Indexed at that minimal
\* depth; a non-indexable image is written as GrayScale, else
\* GrayScaleAlpha, else RGB, else RGBA, in that order of preference.
C26_WriteChoosesOneFormat ==
    (call.fn = "write" /\ call.forced = NoFormat /\ ~call.out.threw)
        => IF canBeIndexed(call.im)
           THEN IF canBeGrayScale(call.im)
                   /\ call.grayScaleBitDepth <= MinimalDepth(ColourCount(call.im))
                THEN call.out.colorFormat = "GrayScale"
                ELSE /\ call.out.colorFormat = "Indexed"
                     /\ call.out.bitDepth = MinimalDepth(ColourCount(call.im))
           ELSE call.out.colorFormat = PreferredFormat(call.im)

\* C27: for every image and every bitDepth in {1,2,4,8}, writeEntry appends
\* to dataChunk exactly ceil(width*height*channels*bitDepth/8) bytes, the
\* span length that readEntry, removeEntry and validate compute for the new
\* entry, so the entry's span ends exactly at the new dataChunk.length.
C27_WriteEntryAppendsTheSpan ==
    [][last'.op = "writeEntry"
        => /\ Has(dict', last'.name)
           /\ Len(dataChunk') = Len(dataChunk) + entryDataLength(Get(dict', last'.name))
           /\ Get(dict', last'.name).byteOffset + entryDataLength(Get(dict', last'.name))
                 = Len(dataChunk')]_vars

\* the 0-based place, in the encoded bytes, of the nameLength byte of entry i
NameLengthAt(d, i) ==
    4 + DictSum(SubSeq(d, 1, i - 1)) + DICT_ENTRY_BASE_LENGTH - 1

\* C28: for every dictionary entry whose name is at most 256 bytes long (the
\* maximum validate allows), encode writes a nameLength byte equal to the
\* name's byte length, so TIC.from(encode()) recovers the same name and the
\* same following entries.
C28_NameLengthByteHoldsTheLength ==
    call.fn = "encodeThenFrom"
        => /\ \A i \in 1..Len(dict) :
                Len(TextEncode(dict[i].name)) <= DICT_NAME_MAX_LENGTH
                    => call.bytes[NameLengthAt(dict, i) + 1] = Len(TextEncode(dict[i].name))
           /\ call.read.dict = dict

\* C29: decode reads the four gAMA data bytes as an unsigned big-endian
\* 32-bit integer, so the integer that is divided by 100000 lies in
\* [0, 2^32) for every four-byte value, including those whose first byte is
\* 128 or more.  (n < 2^32 is written n \div 2^16 < 2^16.)
C29_GammaIsUnsigned ==
    (call.fn = "decodeGamma" /\ ~call.res.threw)
        => /\ call.res.hasGamma
           /\ call.res.gamma >= 0
           /\ call.res.gamma \div 65536 < 65536
           /\ call.res.gamma \div 16777216 = call.gammaData[1]
           /\ call.res.gamma % 16777216
                 = call.gammaData[2] * 65536 + call.gammaData[3] * 256 + call.gammaData[4]

\* the DecodeResult of the image written under the name call.names[i]
WrittenResult(i) ==
    [raw |-> WriteRaw(call.ims[i]), width |-> call.ims[i].width,
     height |-> call.ims[i].height, colorFormat |-> WriteFormat(call.ims[i]),
     bitDepth |-> 8]

\* C30: when two asynchronous PNGCache.write calls for different entry names
\* are started on the same cache without awaiting the first, then once both
\* have completed the cache file on disk holds both entries, so a following
\* read of either name returns the image written under it, whatever order
\* the two file writes finish in.
C30_BothWritesReachTheFile ==
    (call.fn = "cache" /\ call.pc = "read")
        => /\ \A i \in 1..2 : Has(FromOf(call.file).tic.dict, call.names[i])
           /\ \A i \in 1..2 : call.readName = call.names[i] => call.result = WrittenResult(i)

====
